---- MODULE Spec2Model ----
(***************************************************************************)
(* A model of five parts of wimlib:                                        *)
(*   - the serial chunk compressor (compress_serial.c),                    *)
(*   - the generic compression wrapper (compress.c),                       *)
(*   - the UNIX apply back-end (unix_apply.c),                             *)
(*   - the write flags, the append lock and the overwrite (write.h),       *)
(*   - the byte swaps and the endianness conversions (endianness.h).       *)
(* Spec is the chunk pipeline driving wimlib_compress; SpecApply is        *)
(* unix_extract with its stream callbacks; SpecCodec is the compressor     *)
(* API; SpecWrite is the overwrite of a WIM file in place; SpecPath is the *)
(* building of extraction paths in the path buffers, byte by byte;         *)
(* SpecEndian applies the conversions of endianness.h to integers of 16,   *)
(* 32 and 64 bits in big-endian and little-endian builds.                  *)
(***************************************************************************)
EXTENDS Integers, Sequences, FiniteSets, TLC

VARIABLES
    verify_build,   \* ENABLE_VERIFY_COMPRESSION is defined in this build
    proc,           \* the process: running, or killed by an assertion / abort()
    ctx,            \* struct serial_chunk_compressor
    heap,           \* state of every block the pipeline allocates
    compressor_ret, \* *compressor_ret of new_serial_chunk_compressor
    new_ret,        \* return value of new_serial_chunk_compressor
    outp,           \* the caller's *cdata_ret, *csize_ret, *usize_ret
    sent,           \* history: submissions accepted and not yet emitted
    last            \* history: the last call, its inputs and its result

svars == <<verify_build, proc, ctx, heap, compressor_ret, new_ret, outp, sent, last>>

VARIABLES
    img,            \* which image (dentry list, inodes, streams) is extracted
    flags,          \* ctx->common.extract_flags
    apc,            \* where unix_extract and the stream reader are
    uctx,           \* struct unix_apply_ctx
    fs,             \* the target filesystem and the process's descriptors
    hist            \* history: injected failures and what became of them

avars == <<img, flags, apc, uctx, fs, hist>>

VARIABLES
    levels,         \* default_compression_levels[]
    cslot,          \* the caller's struct wimlib_compressor *, target of c_ret
    cheap,          \* state of the blocks wimlib_create_compressor allocates
    clast           \* history: the last call of the compressor API

cvars == <<levels, cslot, cheap, clast>>

VARIABLES
    have_flock,     \* HAVE_SYS_FILE_H and HAVE_FLOCK are defined in this build
    wim,            \* WIMStruct: locked_for_append, the image count
    disk,           \* the WIM file: its header and its resource area
    flock_owner,    \* who holds the advisory lock on the WIM file
    wpc,            \* where the overwrite is
    wh              \* history: the overwrite's flags, result and starting point

wvars == <<have_flock, wim, disk, flock_owner, wpc, wh>>

VARIABLES
    tree,           \* the dentries unix_extract is called for (input)
    common_target,  \* ctx->common.target, the directory extracted to (input)
    pathbufs,       \* ctx->pathbufs: the bytes of each path buffer
    which_pathbuf,  \* ctx->which_pathbuf
    built,          \* history: the last path built and the bytes it stored
    ppc             \* where unix_extract is with its path buffers

pvars == <<tree, common_target, pathbufs, which_pathbuf, built, ppc>>

VARIABLES
    words_bigendian, \* WORDS_BIGENDIAN is defined in this build
    gnuc_4_3,        \* the compiler is GCC 4.3 or later
    e_width,         \* sizeof the integer type converted
    e_vals,          \* history: the argument and the result of each conversion
    e_ops            \* history: the conversions applied, in order

evars == <<words_bigendian, gnuc_4_3, e_width, e_vals, e_ops>>

(***************************************************************************)
(* Bounds of the model.                                                    *)
(***************************************************************************)
MaxChunkSize == 2      \* largest out_chunk_size a pipeline is created with
MaxQueue == 2          \* cap on the history queue of accepted submissions
MaxCodecMemory == 2    \* largest amount a codec's get_needed_memory returns

Byte == {0, 1}
Uninit == 0 - 1        \* content of a byte MALLOC returned and nobody wrote

Max(a, b) == IF a >= b THEN a ELSE b
Min(a, b) == IF a <= b THEN a ELSE b

(***************************************************************************)
(* compress.c                                                              *)
(***************************************************************************)
WIMLIB_COMPRESSION_TYPE_XPRESS == 1
WIMLIB_COMPRESSION_TYPE_LZX == 2
WIMLIB_COMPRESSION_TYPE_LZMS == 3

\* static const struct compressor_ops *compressor_ops[]: designated
\* initialisers at 1, 2 and 3, so index 0 is a null pointer.
compressor_ops ==
    [i \in 0..WIMLIB_COMPRESSION_TYPE_LZMS |->
        IF i = WIMLIB_COMPRESSION_TYPE_XPRESS THEN "xpress_compressor_ops"
        ELSE IF i = WIMLIB_COMPRESSION_TYPE_LZX THEN "lzx_compressor_ops"
        ELSE IF i = WIMLIB_COMPRESSION_TYPE_LZMS THEN "lzms_compressor_ops"
        ELSE "NULL"]

ARRAY_LEN_compressor_ops == WIMLIB_COMPRESSION_TYPE_LZMS + 1

compressor_ctype_valid(ctype) ==
    /\ ctype >= 0
    /\ ctype < ARRAY_LEN_compressor_ops
    /\ compressor_ops[ctype] # "NULL"

CTypes == (0 - 1)..(ARRAY_LEN_compressor_ops)

DEFAULT_COMPRESSION_LEVEL == 50

\* compression levels callers pass; 0 asks for the default
Levels == {0, 10, 100}

\* compression levels set as defaults; 0 takes a default back
DefaultLevels == {0, 10}

\* FREE(p) of block b, p not NULL: "double_free" if it was freed before
FREE(h, b) ==
    [h EXCEPT ![b] = IF @ = "live" THEN "freed"
                     ELSE IF @ = "null" THEN "null" ELSE "double_free"]

\* MALLOC returning block b
MALLOC(h, b) == [h EXCEPT ![b] = "live"]

\* a table every call writes, rejected or not
set_default_writes_first(tab, ctype, compression_level) ==
    [ret |-> IF ctype = 0 - 1 \/ compressor_ctype_valid(ctype) THEN "0"
             ELSE "WIMLIB_ERR_INVALID_COMPRESSION_TYPE",
     levels |-> [i \in DOMAIN tab |->
                    IF ctype = 0 - 1 \/ i = ctype THEN compression_level
                    ELSE tab[i]]]

\* wimlib_set_default_compression_level(ctype, compression_level)
wimlib_set_default_compression_level(tab, ctype, compression_level) ==
    IF ctype = 0 - 1
    THEN [ret |-> "0", levels |-> [i \in DOMAIN tab |-> compression_level]]
    ELSE IF ~compressor_ctype_valid(ctype)
    THEN [ret |-> "WIMLIB_ERR_INVALID_COMPRESSION_TYPE", levels |-> tab]
    ELSE [ret |-> "0", levels |-> [tab EXCEPT ![ctype] = compression_level]]

\* if (compression_level == 0) the default of the type, then the global one
effective_level(tab, ctype, compression_level) ==
    IF compression_level # 0 THEN compression_level
    ELSE IF tab[ctype] # 0 THEN tab[ctype]
    ELSE DEFAULT_COMPRESSION_LEVEL

\* sizeof(struct wimlib_compressor), in units of one member
SIZEOF_wimlib_compressor == 4

\* the level of wimlib_get_compressor_needed_memory without the default of
\* the type
needed_memory_level_global_only(tab, ctype, compression_level) ==
    IF compression_level = 0 THEN DEFAULT_COMPRESSION_LEVEL ELSE compression_level

\* wimlib_get_compressor_needed_memory: compression_level after its two
\* "if (compression_level == 0)" assignments
needed_memory_level(tab, ctype, compression_level) ==
    LET l1 == IF compression_level = 0 THEN tab[ctype] ELSE compression_level
    IN IF l1 = 0 THEN DEFAULT_COMPRESSION_LEVEL ELSE l1

\* wimlib_get_compressor_needed_memory(ctype, max_block_size,
\* compression_level): has says whether ops->get_needed_memory is set, cb
\* is what it returns; level is the level it is called with (0: not called)
wimlib_get_compressor_needed_memory(tab, ctype, max_block_size, compression_level, has, cb) ==
    IF ~compressor_ctype_valid(ctype) THEN [size |-> 0, level |-> 0]
    ELSE LET level == needed_memory_level(tab, ctype, compression_level) IN
         IF has THEN [size |-> SIZEOF_wimlib_compressor + cb, level |-> level]
         ELSE [size |-> SIZEOF_wimlib_compressor, level |-> 0]

NoCompressor == [set |-> FALSE, ctype |-> 0, max_block_size |-> 0]

\* the failures a call of wimlib_create_compressor may meet: MALLOC of the
\* compressor, or the codec's create_compressor callback
CreateFailures == {"none", "compressor", "private", "private_param"}

\* what the create callback returns under failure choice fail
callback_ret(fail) ==
    IF fail = "private" THEN "WIMLIB_ERR_NOMEM"
    ELSE IF fail = "private_param" THEN "WIMLIB_ERR_INVALID_PARAM"
    ELSE "0"

CreateOutcome(ret, h, written, c, level, failed) ==
    [ret |-> ret, heap |-> h, written |-> written, c |-> c, level |-> level,
     failed |-> failed]

\* a validation that looks at the codec id first
create_checks_ctype_first(ctype, max_block_size, c_ret_null) ==
    IF ~compressor_ctype_valid(ctype) THEN "WIMLIB_ERR_INVALID_COMPRESSION_TYPE"
    ELSE IF c_ret_null THEN "WIMLIB_ERR_INVALID_PARAM"
    ELSE IF max_block_size = 0 THEN "WIMLIB_ERR_INVALID_PARAM"
    ELSE "0"

\* the three argument checks of wimlib_create_compressor, in their order
create_checks(ctype, max_block_size, c_ret_null) ==
    IF c_ret_null THEN "WIMLIB_ERR_INVALID_PARAM"
    ELSE IF max_block_size = 0 THEN "WIMLIB_ERR_INVALID_PARAM"
    ELSE IF ~compressor_ctype_valid(ctype) THEN "WIMLIB_ERR_INVALID_COMPRESSION_TYPE"
    ELSE "0"

\* if (ret) { FREE(c); return ret; }
create_callback_failed(h) == FREE(h, "compressor")

\* wimlib_create_compressor(ctype, max_block_size, compression_level, c_ret)
\* on heap h: malloc_fails says whether MALLOC(sizeof(*c)) fails, cb is what
\* the codec's create_compressor callback returns.
wimlib_create_compressor(h, tab, ctype, max_block_size, compression_level, c_ret_null, malloc_fails, cb) ==
    LET chk == create_checks(ctype, max_block_size, c_ret_null) IN
    IF chk # "0" THEN CreateOutcome(chk, h, FALSE, NoCompressor, 0, "")
    ELSE IF malloc_fails
    THEN CreateOutcome("WIMLIB_ERR_NOMEM", h, FALSE, NoCompressor, 0, "compressor")
    ELSE LET level == effective_level(tab, ctype, compression_level) IN
         IF cb # "0"
         THEN CreateOutcome(cb, create_callback_failed(MALLOC(h, "compressor")),
                            FALSE, NoCompressor, level, "private")
         ELSE CreateOutcome("0", MALLOC(MALLOC(h, "compressor"), "private"), TRUE,
                            [set |-> TRUE, ctype |-> ctype,
                             max_block_size |-> max_block_size],
                            level, "")

\* wimlib_free_compressor(c): the codec's free_compressor(c->private), FREE(c)
wimlib_free_compressor(h, c) ==
    IF c.set THEN FREE(FREE(h, "private"), "compressor") ELSE h

\* c->ops->compress(in, in_len, out, out_avail, private): the codec may write
\* anywhere in out[0, out_avail) and returns the compressed size, or 0.
CodecCompress(out_avail) ==
    { [r |-> r, bytes |-> b] : r \in 0..out_avail, b \in [1..out_avail -> Byte] }

\* wimlib_decompress(compressed_data, compressed_size, buf, uncompressed_size, d)
CodecDecompress(uncompressed_size) ==
    { [res |-> res, buf |-> b] : res \in {0, 1}, b \in [1..uncompressed_size -> Byte] }

\* a comparison that stops one byte short
memcmp_short(a, b, n) == IF \A i \in 1..(n - 1) : a[i] = b[i] THEN 0 ELSE 1

\* memcmp(uncompressed_data, buf, uncompressed_size)
memcmp(a, b, n) == IF \A i \in 1..n : a[i] = b[i] THEN 0 ELSE 1

\* cdata after the codec wrote b into its first Len(b) bytes
Overwrite(buf, b) ==
    [i \in 1..Len(buf) |-> IF i <= Len(b) THEN b[i] ELSE buf[i]]

\* wimlib_assert(uncompressed_size <= c->max_block_size)
compress_assertion(uncompressed_size, c) ==
    uncompressed_size <= c.max_block_size

NoDec == [done |-> FALSE, res |-> 0, buf |-> <<>>]

Outcome(kind, ret, cd, log, codec_r, dec) ==
    [kind |-> kind, ret |-> ret, cdata |-> cd, log |-> log, codec_r |-> codec_r,
     dec |-> dec]

\* a verification that lets the compressed size through when it cannot run
verify_compression_unverified(uncompressed_data, uncompressed_size, cd, compressed_size) ==
    { Outcome("return", compressed_size, cd, "warn_no_buffer", compressed_size, NoDec) }

\* The #ifdef ENABLE_VERIFY_COMPRESSION block of wimlib_compress, entered
\* with compressed_size != 0.
verify_compression(uncompressed_data, uncompressed_size, cd, compressed_size) ==
    \* buf = MALLOC(uncompressed_size) fails
    { Outcome("return", 0, cd, "warn_no_buffer", compressed_size, NoDec) }
    \cup
    \* wimlib_create_decompressor fails
    { Outcome("return", 0, cd, "warn_no_decompressor", compressed_size, NoDec) }
    \cup
    { LET dec == [done |-> TRUE, res |-> d.res, buf |-> d.buf] IN
      IF d.res # 0
        THEN Outcome("abort", 0, cd, "error_decompress_failed", compressed_size, dec)
        ELSE IF memcmp(uncompressed_data, d.buf, uncompressed_size) # 0
        THEN Outcome("abort", 0, cd, "error_not_original", compressed_size, dec)
        ELSE Outcome("return", compressed_size, cd, "", compressed_size, dec)
      : d \in CodecDecompress(uncompressed_size) }

\* wimlib_compress(uncompressed_data, uncompressed_size, compressed_data,
\*                 compressed_size_avail, c): the set of its outcomes.
wimlib_compress(uncompressed_data, uncompressed_size, compressed_data, compressed_size_avail, c, verify) ==
    IF ~compress_assertion(uncompressed_size, c)
    THEN { Outcome("assert", 0, compressed_data, "assertion_failed", 0, NoDec) }
    ELSE UNION {
        LET cd == Overwrite(compressed_data, o.bytes) IN
        IF verify /\ o.r # 0
        THEN verify_compression(uncompressed_data, uncompressed_size, cd, o.r)
        ELSE { Outcome("return", o.r, cd, "", o.r, NoDec) }
        : o \in CodecCompress(compressed_size_avail) }

(***************************************************************************)
(* compress_serial.c                                                       *)
(***************************************************************************)
Blocks == {"ctx", "compressor", "private", "udata", "cdata"}

NoCtx ==
    [alive |-> FALSE, out_ctype |-> 0, out_chunk_size |-> 0, num_threads |-> 0,
     compressor |-> [set |-> FALSE, ctype |-> 0, max_block_size |-> 0],
     udata |-> <<>>, cdata |-> <<>>, ulen |-> 0]

NoCall ==
    [op |-> "none", returned |-> FALSE, ret |-> FALSE, size |-> 0, chunk |-> <<>>,
     had |-> FALSE, expect |-> <<>>, avail |-> 0, compress_ret |-> 0,
     codec_r |-> 0, log |-> "", dec |-> NoDec, failed |-> "", written |-> FALSE]

Running == proc.state = "running"
Killed(at) == [state |-> "aborted", at |-> at]

\* a destroy that forgets the two buffers
serial_chunk_compressor_destroy_leaky(h, c) ==
    FREE(wimlib_free_compressor(h, c), "ctx")

\* serial_chunk_compressor_destroy(ctx), ctx not NULL, ctx->compressor = c
serial_chunk_compressor_destroy(h, c) ==
    FREE(FREE(FREE(wimlib_free_compressor(h, c), "udata"), "cdata"), "ctx")

\* a codec created for blocks one byte smaller than a chunk
new_max_block_size_small(out_chunk_size) == out_chunk_size - 1

\* max_block_size handed to wimlib_create_compressor
new_max_block_size(out_chunk_size) == out_chunk_size

AllocFailures ==
    {"none", "ctx", "compressor", "private", "private_param", "udata", "cdata",
     "udata_cdata"}

new_serial_chunk_compressor ==
    /\ Running /\ new_ret = "unset"
    /\ \E out_ctype \in CTypes, out_chunk_size \in 0..MaxChunkSize, fail \in AllocFailures :
        LET call == [NoCall EXCEPT !.op = "new", !.size = out_chunk_size]
            h1 == MALLOC(heap, "ctx")
            cc == wimlib_create_compressor(h1, levels, out_ctype,
                        new_max_block_size(out_chunk_size), 0, FALSE,
                        fail = "compressor", callback_ret(fail))
            h3 == [cc.heap EXCEPT !["udata"] = IF fail \in {"udata", "udata_cdata"}
                                               THEN "null" ELSE "live",
                                  !["cdata"] = IF fail \in {"cdata", "udata_cdata"}
                                               THEN "null" ELSE "live"]
        IN
        IF ~(out_chunk_size > 0)
        THEN /\ proc' = Killed("new_serial_chunk_compressor")
             /\ last' = call
             /\ UNCHANGED <<ctx, heap, compressor_ret, new_ret>>
        ELSE IF fail = "ctx"
        THEN /\ new_ret' = "WIMLIB_ERR_NOMEM"
             /\ last' = [call EXCEPT !.returned = TRUE, !.failed = "ctx"]
             /\ UNCHANGED <<proc, ctx, heap, compressor_ret>>
        ELSE IF cc.ret # "0"
        THEN /\ new_ret' = cc.ret
             /\ heap' = serial_chunk_compressor_destroy(cc.heap, cc.c)
             /\ last' = [call EXCEPT !.returned = TRUE, !.written = cc.written,
                                     !.failed = IF cc.failed = "private" THEN fail
                                                ELSE cc.failed]
             /\ UNCHANGED <<proc, ctx, compressor_ret>>
        ELSE IF fail \in {"udata", "cdata", "udata_cdata"}
        THEN /\ new_ret' = "WIMLIB_ERR_NOMEM"
             /\ heap' = serial_chunk_compressor_destroy(h3, cc.c)
             /\ last' = [call EXCEPT !.returned = TRUE, !.failed = fail,
                                     !.written = cc.written]
             /\ UNCHANGED <<proc, ctx, compressor_ret>>
        ELSE /\ new_ret' = "0"
             /\ heap' = h3
             /\ ctx' = [alive |-> TRUE, out_ctype |-> out_ctype,
                        out_chunk_size |-> out_chunk_size, num_threads |-> 1,
                        compressor |-> cc.c,
                        udata |-> [i \in 1..out_chunk_size |-> Uninit],
                        cdata |-> [i \in 1..(out_chunk_size - 1) |-> Uninit],
                        ulen |-> 0]
             /\ compressor_ret' = "ctx"
             /\ last' = [call EXCEPT !.returned = TRUE, !.ret = TRUE,
                                     !.written = cc.written]
             /\ UNCHANGED proc
    /\ UNCHANGED <<verify_build, outp, sent>>
    /\ UNCHANGED avars
    /\ UNCHANGED <<cvars, wvars, pvars, evars>>

\* a submit that never finds a chunk pending
submit_rejects_never(ulen) == FALSE

\* if (ctx->ulen != 0) return false;
submit_rejects(ulen) == ulen # 0

\* wimlib_assert(size > 0); wimlib_assert(size <= ctx->base.out_chunk_size);
submit_assertions(size, out_chunk_size) == size > 0 /\ size <= out_chunk_size

\* memcpy(ctx->udata, chunk, size)
memcpy(dst, src, n) ==
    [i \in 1..Len(dst) |-> IF i <= n THEN src[i] ELSE dst[i]]

serial_chunk_compressor_submit_chunk ==
    /\ Running /\ compressor_ret = "ctx" /\ Len(sent) < MaxQueue
    /\ \E size \in 0..(MaxChunkSize + 1) : \E chunk \in [1..size -> Byte] :
        LET call == [NoCall EXCEPT !.op = "submit", !.size = size, !.chunk = chunk] IN
        IF submit_rejects(ctx.ulen)
        THEN /\ last' = [call EXCEPT !.returned = TRUE, !.ret = FALSE]
             /\ UNCHANGED <<proc, ctx, sent>>
        ELSE IF ~submit_assertions(size, ctx.out_chunk_size)
        THEN /\ proc' = Killed("serial_chunk_compressor_submit_chunk")
             /\ last' = call
             /\ UNCHANGED <<ctx, sent>>
        ELSE /\ ctx' = [ctx EXCEPT !.udata = memcpy(@, chunk, size), !.ulen = size]
             /\ sent' = Append(sent, chunk)
             /\ last' = [call EXCEPT !.returned = TRUE, !.ret = TRUE]
             /\ UNCHANGED proc
    /\ UNCHANGED <<verify_build, heap, compressor_ret, new_ret, outp>>
    /\ UNCHANGED avars
    /\ UNCHANGED <<cvars, wvars, pvars, evars>>

\* if (ctx->ulen == 0) return false;
get_nothing_pending(ulen) == ulen = 0

\* the whole input length offered to the codec
get_out_avail_full(ulen) == ulen

\* compressed_size_avail handed to wimlib_compress: ctx->ulen - 1
get_out_avail(ulen) == ulen - 1

\* the fallback branch reporting the codec's size
get_outputs_no_fallback(clen, ulen) ==
    [cdata_ret |-> "cdata", csize_ret |-> clen, usize_ret |-> ulen]

\* if (clen) { cdata, clen } else { udata, ulen }; *usize_ret = ulen
get_outputs(clen, ulen) ==
    IF clen # 0
    THEN [cdata_ret |-> "cdata", csize_ret |-> clen, usize_ret |-> ulen]
    ELSE [cdata_ret |-> "udata", csize_ret |-> ulen, usize_ret |-> ulen]

\* a get_chunk that leaves the chunk pending
get_ulen_after_kept(ulen) == ulen

\* ctx->ulen = 0
get_ulen_after(ulen) == 0

serial_chunk_compressor_get_chunk ==
    /\ Running /\ compressor_ret = "ctx"
    /\ LET call == [NoCall EXCEPT !.op = "get", !.had = sent # <<>>,
                        !.expect = IF sent # <<>> THEN Head(sent) ELSE <<>>,
                        !.size = ctx.ulen]
       IN
       IF get_nothing_pending(ctx.ulen)
       THEN /\ last' = [call EXCEPT !.returned = TRUE, !.ret = FALSE]
            /\ UNCHANGED <<proc, ctx, outp, sent>>
       ELSE \E o \in wimlib_compress(ctx.udata, ctx.ulen, ctx.cdata,
                                     get_out_avail(ctx.ulen), ctx.compressor,
                                     verify_build) :
            LET c2 == [call EXCEPT !.avail = get_out_avail(ctx.ulen),
                           !.codec_r = o.codec_r, !.log = o.log,
                           !.compress_ret = o.ret, !.dec = o.dec]
            IN
            IF o.kind # "return"
            THEN /\ proc' = Killed("wimlib_compress")
                 /\ last' = c2
                 /\ ctx' = [ctx EXCEPT !.cdata = o.cdata]
                 /\ UNCHANGED <<outp, sent>>
            ELSE /\ outp' = get_outputs(o.ret, ctx.ulen)
                 /\ ctx' = [ctx EXCEPT !.cdata = o.cdata, !.ulen = get_ulen_after(@)]
                 /\ sent' = IF sent # <<>> THEN Tail(sent) ELSE sent
                 /\ last' = [c2 EXCEPT !.returned = TRUE, !.ret = TRUE]
                 /\ UNCHANGED proc
    /\ UNCHANGED <<verify_build, heap, compressor_ret, new_ret>>
    /\ UNCHANGED avars
    /\ UNCHANGED <<cvars, wvars, pvars, evars>>

(***************************************************************************)
(* unix_apply.c: the data being extracted.                                 *)
(***************************************************************************)
NUM_PATHBUFS == 2
MAX_OPEN_STREAMS == 3          \* bound standing for the program's constant
REPARSE_DATA_MAX_SIZE == 5     \* bound standing for the program's constant
MaxFaults == 3                 \* system calls that may fail in one extraction
MaxChunk == 2                  \* longest chunk the stream reader delivers

NULL == 0 - 1                  \* a null pointer (reparse_ptr, path)
Slash == 47                    \* the byte '/'

AllFlags == {"UNIX_DATA", "STRICT_ACLS", "STRICT_TIMESTAMPS", "RPFIX"}

\* realpath(ctx->common.target): "/t"
TargetAbspath == <<Slash, 1>>

De(ino, parent) == [ino |-> ino, parent |-> parent]
Ino(kind, unix, stream, not_rpfixed) ==
    [kind |-> kind, unix |-> unix, stream |-> stream, not_rpfixed |-> not_rpfixed]
St(data, owners) == [size |-> Len(data), data |-> data, owners |-> owners]
Obj(kind, data) ==
    [kind |-> kind, data |-> data, target |-> <<>>, rp |-> <<>>, meta |-> {}]

\* Image 1: "/", e = e2 (empty file, two names), s (character device),
\* f = f2 (file, two names), l (symbolic link), g and h (files); f, l and g
\* own stream 1, h owns stream 2.
Image1 ==
    [dentries |-> << De(1, 1), De(2, 1), De(2, 1), De(3, 1), De(4, 1), De(4, 1),
                     De(5, 1), De(6, 1), De(7, 1) >>,
     inodes |-> << Ino("dir", "dir", 0, FALSE), Ino("reg", "reg", 0, FALSE),
                   Ino("reg", "chr", 0, FALSE), Ino("reg", "reg", 1, FALSE),
                   Ino("symlink", "lnk", 1, FALSE), Ino("reg", "none", 1, FALSE),
                   Ino("reg", "none", 2, FALSE) >>,
     streams |-> << St(<<Slash, 1>>, <<4, 5, 6>>), St(<<1>>, <<7>>) >>,
     pre |-> {
        \* a fresh target directory
        [names |-> <<1, 0, 0, 0, 0, 0, 0, 0, 0>>, objs |-> << Obj("dir", <<>>) >>],
        \* an earlier extraction: e2, s and l exist, f and g are one file
        [names |-> <<1, 0, 2, 3, 4, 0, 5, 4, 0>>,
         objs |-> << Obj("dir", <<>>), Obj("reg", <<>>), Obj("reg", <<>>),
                     Obj("reg", <<1, 1, 1>>), Obj("symlink", <<>>) >>],
        \* f2 exists as a directory
        [names |-> <<1, 0, 0, 0, 0, 2, 0, 0, 0>>,
         objs |-> << Obj("dir", <<>>), Obj("dir", <<>>) >>] }]

\* Image 2: "/", d (directory), l1 (relative link kept as is), l2 (absolute
\* link too long to fix up), l3 (link whose reparse data is too large).
Image2 ==
    [dentries |-> << De(1, 1), De(2, 1), De(3, 2), De(4, 2), De(5, 2) >>,
     inodes |-> << Ino("dir", "none", 0, FALSE), Ino("dir", "dir", 0, FALSE),
                   Ino("symlink", "none", 1, FALSE), Ino("symlink", "none", 2, FALSE),
                   Ino("symlink", "none", 3, FALSE) >>,
     streams |-> << St(<<1, Slash>>, <<3>>),
                    St([i \in 1..(REPARSE_DATA_MAX_SIZE - 1) |->
                            IF i = 1 THEN Slash ELSE 1], <<4>>),
                    St([i \in 1..(REPARSE_DATA_MAX_SIZE + 1) |-> 1], <<5>>) >>,
     pre |-> {
        [names |-> <<0, 0, 0, 0, 0>>, objs |-> << >>],
        \* d exists as a regular file
        [names |-> <<1, 2, 0, 0, 0>>,
         objs |-> << Obj("dir", <<>>), Obj("reg", <<>>) >>] }]

\* Image 3: "/", a (directory), a/f (file owning stream 1).
Image3 ==
    [dentries |-> << De(1, 1), De(2, 1), De(3, 2) >>,
     inodes |-> << Ino("dir", "dir", 0, FALSE), Ino("dir", "dir", 0, FALSE),
                   Ino("reg", "reg", 1, FALSE) >>,
     streams |-> << St(<<1>>, <<3>>) >>,
     pre |-> {
        [names |-> <<1, 0, 0>>, objs |-> << Obj("dir", <<>>) >>],
        \* a exists
        [names |-> <<1, 2, 0>>,
         objs |-> << Obj("dir", <<>>), Obj("dir", <<>>) >>] }]

\* Image 4: "/", k = k2 = k3 (file, three names), m = m2 (relative symbolic
\* link, two names), n (absolute link marked as not fixed at capture), p and
\* q (files); k, p and q own stream 1, m owns stream 2, n owns stream 3.
Image4 ==
    [dentries |-> << De(1, 1), De(2, 1), De(2, 1), De(2, 1), De(3, 1), De(3, 1),
                     De(4, 1), De(5, 1), De(6, 1) >>,
     inodes |-> << Ino("dir", "none", 0, FALSE), Ino("reg", "none", 1, FALSE),
                   Ino("symlink", "none", 2, FALSE), Ino("symlink", "none", 3, TRUE),
                   Ino("reg", "none", 1, FALSE), Ino("reg", "none", 1, FALSE) >>,
     streams |-> << St(<<1>>, <<2, 5, 6>>), St(<<1>>, <<3>>),
                    St(<<Slash>>, <<4>>) >>,
     pre |-> {
        [names |-> <<1, 0, 0, 0, 0, 0, 0, 0, 0>>, objs |-> << Obj("dir", <<>>) >>] }]

Images == << Image1, Image2, Image3, Image4 >>

Image == Images[img]
ND == Len(Image.dentries)
NS == Len(Image.streams)
Dentry(d) == Image.dentries[d]
Inode(ino) == Image.inodes[ino]
Stream(k) == Image.streams[k]

dentry_is_directory(d) == Inode(Dentry(d).ino).kind = "dir"
inode_is_directory(ino) == Inode(ino).kind = "dir"
inode_is_symlink(ino) == Inode(ino).kind = "symlink"
inode_unnamed_lte_resolved(ino) == Inode(ino).stream
inode_get_unix_data(ino) == Inode(ino).unix # "none"
S_ISREG(ino) == Inode(ino).unix = "reg"

RECURSIVE AliasesFrom(_, _)
AliasesFrom(ino, d) ==
    IF d > ND THEN <<>>
    ELSE IF Dentry(d).ino = ino THEN <<d>> \o AliasesFrom(ino, d + 1)
    ELSE AliasesFrom(ino, d + 1)

\* inode->i_extraction_aliases, in dentry-list order
i_extraction_aliases(ino) == AliasesFrom(ino, 1)
inode_first_extraction_dentry(ino) == Head(i_extraction_aliases(ino))

(***************************************************************************)
(* The world a handler runs in: w.c is the unix_apply_ctx, w.f the         *)
(* filesystem and descriptors, w.h the history.  Every handler below is    *)
(* the set of its outcomes [w, r]: the world it leaves and what it returns.*)
(***************************************************************************)
R(w, r) == [w |-> w, r |-> r]

CanFault(w) == w.h.faults < MaxFaults
Fault(w) == [w EXCEPT !.h.faults = @ + 1]
\* an operation that fails: counted in the history
Err(w, r) == R([w EXCEPT !.h.nfail = @ + 1], r)
\* a failure the environment may inflict
Faulted(w, r) == IF CanFault(w) THEN { Err(Fault(w), r) } ELSE {}
\* a failure the code goes on after
Swallow(w, what) ==
    [w EXCEPT !.h.swallowed = @ \cup {what}, !.h.nswallowed = @ + 1]

PathOf(w, pb) == w.c.pathbufs[pb + 1]
ObjAt(w, p) == w.f.names[p]
KindAt(w, p) == IF ObjAt(w, p) = 0 THEN "none" ELSE w.f.objs[ObjAt(w, p)].kind

Create(w, p, o) ==
    [w EXCEPT !.f.objs = Append(@, o), !.f.names[p] = Len(w.f.objs) + 1]

\* ctx->which_pathbuf = (ctx->which_pathbuf + 1) % NUM_PATHBUFS
build_next_pathbuf(which) == (which + 1) % NUM_PATHBUFS

\* unix_build_extraction_path: the path of dentry d is written into the
\* current buffer, whose index (the old which_pathbuf) is what it returns.
unix_build_extraction_path(w, d) ==
    [w EXCEPT !.c.pathbufs[w.c.which_pathbuf + 1] = d,
              !.c.which_pathbuf = build_next_pathbuf(@)]

\* (UINT_MAX) % n for the 32-bit unsigned which_pathbuf: 2^32 - 1 modulo n
UINT_MAX_mod(n) == (((65536 % n) * (65536 % n)) + n - 1) % n

\* a reuse that leaves the index where the last build put it
reuse_pathbuf_stuck(which) == which

\* (ctx->which_pathbuf - 1) % NUM_PATHBUFS, in unsigned arithmetic
reuse_pathbuf(which) ==
    IF which = 0 THEN UINT_MAX_mod(NUM_PATHBUFS) ELSE (which - 1) % NUM_PATHBUFS

unix_reuse_pathbuf(w) ==
    [w EXCEPT !.c.which_pathbuf = reuse_pathbuf(@)]

unix_build_inode_extraction_path(w, ino) ==
    unix_build_extraction_path(w, inode_first_extraction_dentry(ino))

\* report_file_created / report_file_metadata_applied: the progress callback
\* may ask to stop.
report_progress(w) ==
    { R(w, "0") } \cup
    (IF CanFault(w) THEN { R(Fault(w), "WIMLIB_ERR_ABORTED_BY_PROGRESS") } ELSE {})

(***************************************************************************)
(* System calls.  Each call made by a handler is noted in w.h.log with its *)
(* arguments (paths by the dentry they name) and what it returned.         *)
(***************************************************************************)
Sys(op, a, b, r) == [op |-> op, a |-> a, b |-> b, r |-> r]
Logged(S, op, a, b) ==
    { R([x.w EXCEPT !.h.log = Append(@, Sys(op, a, b, x.r))], x.r) : x \in S }

sys_mkdir(w, p) ==
    Logged(IF ObjAt(w, p) # 0 THEN { Err(w, "EEXIST") }
           ELSE { R(Create(w, p, Obj("dir", <<>>)), "0") } \cup Faulted(w, "EIO"),
           "mkdir", p, 0)

sys_lstat(w, p) ==
    Logged(IF ObjAt(w, p) = 0 THEN { Err(w, "ENOENT") }
           ELSE { R(w, KindAt(w, p)) } \cup Faulted(w, "EIO"),
           "lstat", p, 0)

sys_unlink(w, p) ==
    Logged(IF ObjAt(w, p) = 0 THEN { Err(w, "ENOENT") }
           ELSE IF KindAt(w, p) = "dir" THEN { Err(w, "EISDIR") }
           ELSE { R([w EXCEPT !.f.names[p] = 0], "0") } \cup Faulted(w, "EIO"),
           "unlink", p, 0)

sys_mknod(w, p) ==
    Logged((IF ObjAt(w, p) # 0 THEN { Err(w, "EEXIST") }
            ELSE { R(Create(w, p, Obj("special", <<>>)), "0") })
           \cup { [y EXCEPT !.w.h.eperm = @ + 1] : y \in Faulted(w, "EPERM") }
           \cup Faulted(w, "EIO"),
           "mknod", p, 0)

sys_link(w, oldp, newp) ==
    Logged(IF ObjAt(w, oldp) = 0 THEN { Err(w, "ENOENT") }
           ELSE IF ObjAt(w, newp) # 0 THEN { Err(w, "EEXIST") }
           ELSE { R([w EXCEPT !.f.names[newp] = ObjAt(w, oldp)], "0") }
                \cup Faulted(w, "EIO"),
           "link", oldp, newp)

sys_symlink(w, target, rp, p) ==
    Logged(IF ObjAt(w, p) # 0 THEN { Err(w, "EEXIST") }
           ELSE { R(Create(w, p, [Obj("symlink", <<>>) EXCEPT !.target = target,
                                                               !.rp = rp]), "0") }
                \cup Faulted(w, "EIO"),
           "symlink", p, Len(target))

NewFd(w, o) ==
    [w EXCEPT !.f.fdtab = Append(@, [obj |-> o, off |-> 0, closes |-> 0])]

\* open(path, O_TRUNC | O_CREAT | O_WRONLY | O_NOFOLLOW, 0644); the new
\* descriptor is the last of w.f.fdtab.
sys_open(w, p) ==
    Logged((IF ObjAt(w, p) = 0
            THEN { R(NewFd(Create(w, p, Obj("reg", <<>>)), Len(w.f.objs) + 1), "0") }
            ELSE IF KindAt(w, p) = "reg"
            THEN { R(NewFd([w EXCEPT !.f.objs[ObjAt(w, p)].data = <<>>],
                           ObjAt(w, p)), "0") }
                 \cup Faulted(w, "EEXIST")
            ELSE IF KindAt(w, p) = "dir" THEN { Err(w, "EISDIR") }
            ELSE { Err(w, "ELOOP") })
           \cup Faulted(w, "EIO"),
           "open", p, Len(w.f.fdtab) + 1)

\* close(fd): the descriptor is released whatever close returns
sys_close(w, fd) ==
    LET w1 == [w EXCEPT !.f.fdtab[fd].closes = @ + 1] IN
    Logged({ R(w1, "0") } \cup Faulted(w1, "EIO"), "close", fd, 0)

WriteAt(data, off, chunk) ==
    [i \in 1..Max(Len(data), off + Len(chunk)) |->
        IF i > off /\ i <= off + Len(chunk) THEN chunk[i - off]
        ELSE IF i <= Len(data) THEN data[i] ELSE 0]

DoWrite(w, fd, chunk) ==
    [w EXCEPT !.f.objs[w.f.fdtab[fd].obj].data = WriteAt(@, w.f.fdtab[fd].off, chunk),
              !.f.fdtab[fd].off = @ + Len(chunk)]

\* full_write(fd, chunk, size): all of it, or an error after part of it
full_write(w, fd, chunk) ==
    Logged({ R(DoWrite(w, fd, chunk), "0") }
           \cup UNION { Faulted(DoWrite(w, fd, SubSeq(chunk, 1, n)),
                                "WIMLIB_ERR_WRITE")
                        : n \in 0..(Len(chunk) - 1) },
           "write", fd, Len(chunk))

(***************************************************************************)
(* unix_apply.c: the handlers.                                             *)
(***************************************************************************)
\* One attribute of the file set: through the descriptor when there is one,
\* else through the path.  tgt = 0: the path names nothing.
MetaCall(w, tgt, attr, ino) ==
    Logged(IF tgt = 0 THEN { Err(w, "ENOENT") }
           ELSE { R([w EXCEPT !.f.objs[tgt].meta = @ \cup {<<attr, ino>>}], "0") }
                \cup Faulted(w, "EIO"),
           attr, tgt, ino)

\* unix_set_timestamps: futimens / utimensat first and, when that is not
\* there (ENOSYS), futimes / lutimes.
unix_set_timestamps(w, tgt, ino) ==
    LET first == MetaCall(w, tgt, "times", ino) \cup Faulted(w, "ENOSYS") IN
    UNION { IF x.r = "0" THEN { R(x.w, "0") }
            ELSE IF x.r = "ENOSYS"
            THEN { IF y.r = "0" THEN R(y.w, "0")
                   ELSE R(y.w, "WIMLIB_ERR_SET_TIMESTAMPS")
                   : y \in MetaCall(Swallow(x.w, "utimes_enosys"), tgt, "times", ino) }
            ELSE { R(x.w, "WIMLIB_ERR_SET_TIMESTAMPS") }
          : x \in first }

\* if (!path) path = unix_build_inode_extraction_path(inode, ctx);
\* st = [w, pb]: the world and the path (a buffer index, or NULL).
EnsurePath(st, ino) ==
    IF st.pb # NULL THEN st
    ELSE [w |-> unix_build_inode_extraction_path(st.w, ino),
          pb |-> st.w.c.which_pathbuf]

MetaTarget(w, fd, pb) ==
    IF fd # NULL THEN w.f.fdtab[fd].obj
    ELSE ObjAt(w, PathOf(w, pb))

\* the STRICT_ACLS test of unix_set_metadata ignored
strict_acls_never(fl) == FALSE

\* ctx->common.extract_flags & WIMLIB_EXTRACT_FLAG_STRICT_ACLS
strict_acls(fl) == "STRICT_ACLS" \in fl

\* ctx->common.extract_flags & WIMLIB_EXTRACT_FLAG_STRICT_TIMESTAMPS
strict_timestamps(fl) == "STRICT_TIMESTAMPS" \in fl

\* One step of unix_set_metadata: the call fails -> the path is built for
\* the message, and the failure is returned (strict) or only warned about.
\* Outcomes are [st, r]; r = "" means unix_set_metadata goes on.
MetaStep(st, calls, ino, strict, err, what) ==
    { IF x.r = "0" THEN [st |-> [st EXCEPT !.w = x.w], r |-> ""]
      ELSE LET s2 == EnsurePath([st EXCEPT !.w = x.w], ino) IN
           IF strict THEN [st |-> s2, r |-> err]
           ELSE [st |-> [s2 EXCEPT !.w = Swallow(@, what)], r |-> ""]
      : x \in calls }

\* unix_set_metadata(fd, inode, path, ctx); fd and pb may be NULL
unix_set_metadata(w0, fd, ino, pb0) ==
    LET st0 == IF fd = NULL /\ pb0 = NULL
               THEN EnsurePath([w |-> w0, pb |-> NULL], ino)
               ELSE [w |-> w0, pb |-> pb0]
        tgt(st) == MetaTarget(st.w, fd, st.pb)
        unix == "UNIX_DATA" \in flags /\ inode_get_unix_data(ino)
        owner(st) ==
            IF unix
            THEN MetaStep(st, MetaCall(st.w, tgt(st), "owner", ino), ino,
                          strict_acls(flags), "WIMLIB_ERR_SET_SECURITY", "chown")
            ELSE { [st |-> st, r |-> ""] }
        mode(st) ==
            IF unix /\ ~inode_is_symlink(ino)
            THEN MetaStep(st, MetaCall(st.w, tgt(st), "mode", ino), ino,
                          strict_acls(flags), "WIMLIB_ERR_SET_SECURITY", "chmod")
            ELSE { [st |-> st, r |-> ""] }
        times(st) ==
            MetaStep(st, unix_set_timestamps(st.w, tgt(st), ino), ino,
                     strict_timestamps(flags), "WIMLIB_ERR_SET_TIMESTAMPS", "utimes")
        after_mode == UNION { IF x.r = "" THEN mode(x.st) ELSE { x }
                              : x \in owner(st0) }
        all == UNION { IF x.r = "" THEN times(x.st) ELSE { x }
                       : x \in after_mode }
    IN { R(x.st.w, IF x.r = "" THEN "0" ELSE x.r) : x \in all }

\* link(first_path, newpath) without retry_link
link_once(w, fpb, npb) ==
    { IF x.r = "0" THEN x ELSE R(x.w, "WIMLIB_ERR_LINK")
      : x \in sys_link(w, PathOf(w, fpb), PathOf(w, npb)) }

\* link(first_path, newpath), with the EEXIST retry of unix_create_hardlinks
RECURSIVE link_retry(_, _, _)
link_retry(w, fpb, npb) ==
    UNION { IF x.r = "0" THEN { R(x.w, "0") }
            ELSE IF x.r = "EEXIST"
            THEN UNION { IF u.r = "0"
                         THEN link_retry(Swallow(u.w, "eexist_retry"), fpb, npb)
                         ELSE { R(u.w, "WIMLIB_ERR_LINK") }
                         : u \in sys_unlink(x.w, PathOf(x.w, npb)) }
            ELSE { R(x.w, "WIMLIB_ERR_LINK") }
          : x \in sys_link(w, PathOf(w, fpb), PathOf(w, npb)) }

RECURSIVE hardlinks_from(_, _, _, _)
hardlinks_from(w, aliases, first_dentry, fpb) ==
    IF aliases = <<>> THEN { R(w, "0") }
    ELSE IF Head(aliases) = first_dentry
    THEN hardlinks_from(w, Tail(aliases), first_dentry, fpb)
    ELSE LET w1 == unix_build_extraction_path(w, Head(aliases))
             npb == w.c.which_pathbuf
         IN UNION { IF x.r # "0" THEN { x }
                    ELSE hardlinks_from(unix_reuse_pathbuf(x.w), Tail(aliases),
                                        first_dentry, fpb)
                  : x \in link_retry(w1, fpb, npb) }

\* unix_create_hardlinks(inode, first_dentry, first_path, ctx)
unix_create_hardlinks(w, ino, first_dentry, fpb) ==
    hardlinks_from(w, i_extraction_aliases(ino), first_dentry, fpb)

\* a directory loop that makes nothing
unix_create_if_directory_skips(w, d) == { R(w, "0") }

\* unix_create_if_directory(dentry, ctx)
\* unix_create_if_directory without the S_ISDIR test after EEXIST
unix_create_if_directory_any(w, d) ==
    IF ~dentry_is_directory(d) THEN { R(w, "0") }
    ELSE LET w1 == unix_build_extraction_path(w, d)
             pb == w.c.which_pathbuf
         IN UNION {
            IF x.r = "0" THEN report_progress(x.w)
            ELSE IF x.r = "EEXIST"
            THEN UNION { IF y.r \in {"dir", "reg", "symlink", "special"}
                         THEN report_progress(Swallow(y.w, "mkdir_eexist_dir"))
                         ELSE { R(y.w, "WIMLIB_ERR_MKDIR") }
                         : y \in sys_lstat(x.w, PathOf(x.w, pb)) }
            ELSE { R(x.w, "WIMLIB_ERR_MKDIR") }
            : x \in sys_mkdir(w1, PathOf(w1, pb)) }

unix_create_if_directory(w, d) ==
    IF ~dentry_is_directory(d) THEN { R(w, "0") }
    ELSE LET w1 == unix_build_extraction_path(w, d)
             pb == w.c.which_pathbuf
         IN UNION {
            IF x.r = "0" THEN report_progress(x.w)
            ELSE IF x.r = "EEXIST"
            THEN UNION { IF y.r = "dir"
                         THEN report_progress(Swallow(y.w, "mkdir_eexist_dir"))
                         ELSE { R(y.w, "WIMLIB_ERR_MKDIR") }
                         : y \in sys_lstat(x.w, PathOf(x.w, pb)) }
            ELSE { R(x.w, "WIMLIB_ERR_MKDIR") }
            : x \in sys_mkdir(w1, PathOf(w1, pb)) }

\* if (errno == EPERM) { WARNING; ctx->num_special_files_ignored++; return 0; }
mknod_eperm(w, pb) ==
    { R(Swallow([w EXCEPT !.c.num_special_files_ignored = @ + 1], "mknod_eperm"),
        "EPERM") }

\* mknod(path, mode, rdev) with its retry_mknod loop: "0", "EPERM" (ignored)
\* or WIMLIB_ERR_MKNOD
RECURSIVE mknod_retry(_, _)
mknod_retry(w, pb) ==
    UNION { IF x.r = "0" THEN { R(x.w, "0") }
            ELSE IF x.r = "EPERM" THEN mknod_eperm(x.w, pb)
            ELSE IF x.r = "EEXIST"
            THEN UNION { IF u.r = "0"
                         THEN mknod_retry(Swallow(u.w, "eexist_retry"), pb)
                         ELSE { R(u.w, "WIMLIB_ERR_MKNOD") }
                         : u \in sys_unlink(x.w, PathOf(x.w, pb)) }
            ELSE { R(x.w, "WIMLIB_ERR_MKNOD") }
          : x \in sys_mknod(w, PathOf(w, pb)) }

\* open(...) with its retry_create loop: "0" (the descriptor is the last of
\* fdtab) or WIMLIB_ERR_OPEN
RECURSIVE open_retry(_, _)
open_retry(w, pb) ==
    UNION { IF x.r = "0" THEN { R(x.w, "0") }
            ELSE IF x.r = "EEXIST"
            THEN UNION { IF u.r = "0"
                         THEN open_retry(Swallow(u.w, "eexist_retry"), pb)
                         ELSE { R(u.w, "WIMLIB_ERR_OPEN") }
                         : u \in sys_unlink(x.w, PathOf(x.w, pb)) }
            ELSE { R(x.w, "WIMLIB_ERR_OPEN") }
          : x \in sys_open(w, PathOf(w, pb)) }

\* The end of unix_extract_if_empty_file, from "if (ret) return ret;"
empty_file_tail(S, ino, d, pb) ==
    UNION { IF x.r # "0" THEN { x }
            ELSE UNION { IF y.r # "0" THEN { y } ELSE report_progress(y.w)
                         : y \in unix_create_hardlinks(x.w, ino, d, pb) }
          : x \in S }

\* unix_extract_if_empty_file(dentry, ctx)
unix_extract_if_empty_file(w, d) ==
    LET ino == Dentry(d).ino
        w1 == unix_build_extraction_path(w, d)
        pb == w.c.which_pathbuf
    IN
    IF d # inode_first_extraction_dentry(ino) THEN { R(w, "0") }
    ELSE IF inode_is_directory(ino) \/ inode_is_symlink(ino)
            \/ inode_unnamed_lte_resolved(ino) # 0 THEN { R(w, "0") }
    ELSE IF "UNIX_DATA" \in flags /\ inode_get_unix_data(ino) /\ ~S_ISREG(ino)
    THEN UNION {
            IF x.r = "EPERM" THEN { R(x.w, "0") }
            ELSE IF x.r # "0" THEN { x }
            ELSE empty_file_tail(unix_set_metadata(x.w, NULL, ino, pb), ino, d, pb)
            : x \in mknod_retry(w1, pb) }
    ELSE UNION {
            IF x.r # "0" THEN { x }
            ELSE LET fd == Len(x.w.f.fdtab) IN
                 empty_file_tail(
                    UNION { { IF c.r # "0" /\ m.r = "0"
                              THEN R(c.w, "WIMLIB_ERR_WRITE") ELSE R(c.w, m.r)
                              : c \in sys_close(m.w, fd) }
                            : m \in unix_set_metadata(x.w, fd, ino, pb) },
                    ino, d, pb)
            : x \in open_retry(w1, pb) }

\* wim_inode_readlink(inode, buf, bufsize, lte_override): the link target
\* read from the reparse data, at most bufsize bytes of it
wim_inode_readlink(rpdata, bufsize) ==
    SubSeq(rpdata, 1, Min(Len(rpdata), bufsize))

RECURSIVE symlink_retry(_, _, _, _)
symlink_retry(w, target, rp, pb) ==
    UNION { IF x.r = "0" THEN { R(x.w, "0") }
            ELSE IF x.r = "EEXIST"
            THEN UNION { IF u.r = "0"
                         THEN symlink_retry(Swallow(u.w, "eexist_retry"), target, rp, pb)
                         ELSE { R(u.w, "WIMLIB_ERR_LINK") }
                         : u \in sys_unlink(x.w, PathOf(x.w, pb)) }
            ELSE { R(x.w, "WIMLIB_ERR_LINK") }
          : x \in sys_symlink(w, target, rp, PathOf(w, pb)) }

\* unix_create_symlink without the test of the room left in link_target
unix_create_symlink_nofit(w, ino, pb, rpdata, rpdatalen, rpfix, apply_dir) ==
    LET rp == SubSeq(rpdata, 1, rpdatalen)
        link_target == wim_inode_readlink(rp, REPARSE_DATA_MAX_SIZE - 1)
    IN
    Faulted(w, "WIMLIB_ERR_READLINK") \cup
    (IF rpfix /\ Len(link_target) > 0 /\ link_target[1] = Slash
     THEN symlink_retry(w, apply_dir \o link_target, rp, pb)
     ELSE symlink_retry(w, link_target, rp, pb))

\* unix_create_symlink(inode, path, rpdata, rpdatalen, rpfix, apply_dir,
\*                     apply_dir_nchars)
unix_create_symlink(w, ino, pb, rpdata, rpdatalen, rpfix, apply_dir) ==
    LET rp == SubSeq(rpdata, 1, rpdatalen)
        link_target == wim_inode_readlink(rp, REPARSE_DATA_MAX_SIZE - 1)
        ret == Len(link_target)
    IN
    Faulted(w, "WIMLIB_ERR_READLINK") \cup
    (IF rpfix /\ ret > 0 /\ link_target[1] = Slash
     THEN IF REPARSE_DATA_MAX_SIZE - (ret + 1) < Len(apply_dir)
          THEN { Err(w, "WIMLIB_ERR_REPARSE_POINT_FIXUP_FAILED") }
          ELSE symlink_retry(w, apply_dir \o link_target, rp, pb)
     ELSE symlink_retry(w, link_target, rp, pb))

\* a cleanup that only forgets the descriptors
unix_cleanup_forget(w, offset) == [w EXCEPT !.c.num_open_fds = 0]

RECURSIVE close_from(_, _)
close_from(w, i) ==
    IF i >= w.c.num_open_fds THEN w
    ELSE close_from([w EXCEPT !.f.fdtab[w.c.open_fds[i + 1]].closes = @ + 1,
                              !.h.log = Append(@, Sys("close", w.c.open_fds[i + 1],
                                                      0, "ignored"))],
                    i + 1)

\* unix_cleanup_open_fds(ctx, offset)
unix_cleanup_open_fds(w, offset) ==
    [close_from(w, offset) EXCEPT !.c.num_open_fds = 0]

\* unix_begin_extract_stream_instance with open_fds[num_open_fds] in place of
\* open_fds[num_open_fds++]
unix_begin_extract_stream_instance_one_slot(w, k, ino) ==
    IF inode_is_symlink(ino)
    THEN IF Stream(k).size > REPARSE_DATA_MAX_SIZE
         THEN { Err(w, "WIMLIB_ERR_INVALID_REPARSE_DATA") }
         ELSE { R([w EXCEPT !.c.reparse_ptr = 0], "0") }
    ELSE LET first_dentry == inode_first_extraction_dentry(ino)
             w1 == unix_build_extraction_path(w, first_dentry)
             pb == w.c.which_pathbuf
         IN UNION {
            IF x.r # "0" THEN { x }
            ELSE LET fd == Len(x.w.f.fdtab)
                     w2 == [x.w EXCEPT !.c.open_fds[x.w.c.num_open_fds + 1] = fd,
                                       !.h.stream_fds = @ \cup {fd}]
                 IN unix_create_hardlinks(w2, ino, first_dentry, pb)
            : x \in open_retry(w1, pb) }

\* unix_begin_extract_stream_instance(stream, inode, ctx)
unix_begin_extract_stream_instance(w, k, ino) ==
    IF inode_is_symlink(ino)
    THEN IF Stream(k).size > REPARSE_DATA_MAX_SIZE
         THEN { Err(w, "WIMLIB_ERR_INVALID_REPARSE_DATA") }
         ELSE { R([w EXCEPT !.c.reparse_ptr = 0], "0") }
    ELSE IF ~(w.c.num_open_fds < MAX_OPEN_STREAMS)
    THEN { R([w EXCEPT !.h.asserted = TRUE], "ASSERT") }
    ELSE LET first_dentry == inode_first_extraction_dentry(ino)
             w1 == unix_build_extraction_path(w, first_dentry)
             pb == w.c.which_pathbuf
         IN UNION {
            IF x.r # "0" THEN { x }
            ELSE LET fd == Len(x.w.f.fdtab)
                     w2 == [x.w EXCEPT !.c.open_fds[x.w.c.num_open_fds + 1] = fd,
                                       !.c.num_open_fds = @ + 1,
                                       !.h.stream_fds = @ \cup {fd}]
                 IN unix_create_hardlinks(w2, ino, first_dentry, pb)
            : x \in open_retry(w1, pb) }

RECURSIVE begin_from(_, _, _)
begin_from(w, k, i) ==
    IF i > Len(Stream(k).owners) THEN { R(w, "0") }
    ELSE UNION {
        IF x.r = "ASSERT" THEN { x }
        ELSE IF x.r # "0"
        THEN { R(unix_cleanup_open_fds([x.w EXCEPT !.c.reparse_ptr = NULL], 0), x.r) }
        ELSE begin_from(x.w, k, i + 1)
        : x \in unix_begin_extract_stream_instance(w, k, Stream(k).owners[i]) }

\* unix_begin_extract_stream(stream, ctx)
unix_begin_extract_stream(w, k) == begin_from(w, k, 1)

RECURSIVE write_from(_, _, _)
write_from(w, chunk, i) ==
    IF i >= w.c.num_open_fds THEN { R(w, "0") }
    ELSE UNION { IF x.r # "0" THEN { x } ELSE write_from(x.w, chunk, i + 1)
                 : x \in full_write(w, w.c.open_fds[i + 1], chunk) }

\* a copy that always lands at the start of reparse_data
reparse_copy_no_advance(c, chunk) ==
    [c EXCEPT !.reparse_data =
        [i \in 1..REPARSE_DATA_MAX_SIZE |->
            IF i <= Len(chunk) THEN chunk[i] ELSE @[i]]]

\* ctx->reparse_ptr = mempcpy(ctx->reparse_ptr, chunk, size)
reparse_copy(c, chunk) ==
    [c EXCEPT !.reparse_data =
                [i \in 1..REPARSE_DATA_MAX_SIZE |->
                    IF i > c.reparse_ptr /\ i <= c.reparse_ptr + Len(chunk)
                    THEN chunk[i - c.reparse_ptr] ELSE @[i]],
              !.reparse_ptr = @ + Len(chunk)]

\* unix_extract_chunk(chunk, size, ctx)
unix_extract_chunk(w, chunk) ==
    { IF x.r # "0" THEN x
      ELSE IF x.w.c.reparse_ptr # NULL
      THEN R([x.w EXCEPT !.c = reparse_copy(@, chunk),
                         !.h.overrun = @ \/ (x.w.c.reparse_ptr + Len(chunk)
                                                > REPARSE_DATA_MAX_SIZE)], "0")
      ELSE x
      : x \in write_from(w, chunk, 0) }

\* the loop of unix_end_extract_stream from owner i on, j descriptors closed
RECURSIVE end_from(_, _, _, _)
end_from(w, k, i, j) ==
    IF i > Len(Stream(k).owners) THEN { R(unix_cleanup_open_fds(w, j), "0") }
    ELSE LET ino == Stream(k).owners[i] IN
    IF inode_is_symlink(ino)
    THEN LET rpfix == "RPFIX" \in flags /\ ~Inode(ino).not_rpfixed
             w1 == unix_build_inode_extraction_path(w, ino)
             pb == w.c.which_pathbuf
         IN UNION {
            IF x.r # "0" THEN { R(unix_cleanup_open_fds(x.w, j), x.r) }
            ELSE UNION {
                IF m.r # "0" THEN { R(unix_cleanup_open_fds(m.w, j), m.r) }
                ELSE end_from(m.w, k, i + 1, j)
                : m \in unix_set_metadata(x.w, NULL, ino, pb) }
            : x \in unix_create_symlink(w1, ino, pb, w.c.reparse_data,
                                        Stream(k).size, rpfix, w.c.target_abspath) }
    ELSE LET fd == w.c.open_fds[j + 1] IN
         UNION {
            IF m.r # "0" THEN { R(unix_cleanup_open_fds(m.w, j), m.r) }
            ELSE UNION {
                IF c.r # "0"
                THEN { R(unix_cleanup_open_fds(
                            unix_build_inode_extraction_path(c.w, ino), j),
                         "WIMLIB_ERR_WRITE") }
                ELSE end_from(c.w, k, i + 1, j + 1)
                : c \in sys_close(m.w, fd) }
            : m \in unix_set_metadata(w, fd, ino, NULL) }

\* unix_end_extract_stream without "ctx->reparse_ptr = NULL"
unix_end_extract_stream_keeps_ptr(w, k, status) ==
    IF status # "0" THEN { R(unix_cleanup_open_fds(w, 0), status) }
    ELSE end_from(w, k, 1, 0)

\* unix_end_extract_stream closing the descriptors before the owner loop
unix_end_extract_stream_early_close(w, k, status) ==
    LET w1 == [w EXCEPT !.c.reparse_ptr = NULL] IN
    IF status # "0" THEN { R(unix_cleanup_open_fds(w1, 0), status) }
    ELSE end_from(unix_cleanup_open_fds(w1, 0), k, 1, 0)

\* unix_end_extract_stream(stream, status, ctx)
unix_end_extract_stream(w, k, status) ==
    LET w1 == [w EXCEPT !.c.reparse_ptr = NULL] IN
    IF status # "0" THEN { R(unix_cleanup_open_fds(w1, 0), status) }
    ELSE end_from(w1, k, 1, 0)

(***************************************************************************)
(* unix_extract, one step per call of a handler.  extract_stream_list      *)
(* drives the three stream callbacks.                                      *)
(***************************************************************************)
\* the unix_apply_ctx as the apply framework hands it over (zeroed)
Ctx0 ==
    [pathbufs |-> [i \in 1..NUM_PATHBUFS |-> 0],
     bufs |-> "null",
     which_pathbuf |-> 0,
     open_fds |-> [i \in 1..MAX_OPEN_STREAMS |-> NULL],
     num_open_fds |-> 0,
     reparse_data |-> [i \in 1..REPARSE_DATA_MAX_SIZE |-> 0],
     reparse_ptr |-> NULL,
     target_abspath |-> <<>>,
     abspath |-> "null",
     num_special_files_ignored |-> 0]

NoCb == [op |-> "none", arg |-> 0, ret |-> "", status |-> "", ignored |-> 0,
         eperm |-> FALSE]

Hist0 ==
    [faults |-> 0, nfail |-> 0, nswallowed |-> 0, swallowed |-> {},
     eperm |-> 0, stream_fds |-> {}, delivered |-> <<>>, nchunks |-> 0,
     overrun |-> FALSE, asserted |-> FALSE, log |-> <<>>, cb |-> NoCb]

Pc(pc, i, off, status, ret) ==
    [pc |-> pc, i |-> i, off |-> off, status |-> status, ret |-> ret]

\* the world a handler is called in; the log is that of one call
World == [c |-> uctx, f |-> fs, h |-> [hist EXCEPT !.log = <<>>]]

\* out: FREE(ctx->pathbufs[i]); FREE(ctx->target_abspath); return ret;
unix_extract_out(c) ==
    [c EXCEPT !.bufs = IF @ = "alloc" THEN "freed" ELSE @,
              !.abspath = IF @ = "set" THEN "freed" ELSE @]

\* the step leaves world w and unix_extract goes on at position next, or
\* leaves through out: with ret
Goes(w, ret, next) ==
    /\ fs' = w.f
    /\ hist' = w.h
    /\ IF ret = "ASSERT"
       THEN uctx' = w.c /\ apc' = Pc("aborted", 0, 0, "", "")
       ELSE IF ret # "0"
       THEN uctx' = unix_extract_out(w.c) /\ apc' = Pc("done", 0, 0, "", ret)
       ELSE uctx' = w.c /\ apc' = next
    /\ UNCHANGED <<img, flags>>
    /\ UNCHANGED svars
    /\ UNCHANGED <<cvars, wvars, pvars, evars>>

Called(w, op, arg, ret, status, eperm) ==
    [w EXCEPT !.h.cb = [op |-> op, arg |-> arg, ret |-> ret, status |-> status,
                        ignored |-> uctx.num_special_files_ignored,
                        eperm |-> eperm]]

\* ctx->pathbufs[i] = MALLOC(path_max), for each i
unix_extract_start ==
    /\ apc.pc = "start"
    /\ \E x \in { R([World EXCEPT !.c.bufs = "alloc"], "0") }
                \cup Faulted(World, "WIMLIB_ERR_NOMEM") :
        Goes(x.w, x.r, Pc("dirs", 1, 0, "", ""))

\* first loop of unix_create_dirs_and_empty_files
create_if_directory_step ==
    /\ apc.pc = "dirs"
    /\ \E x \in unix_create_if_directory(World, apc.i) :
        Goes(Called(x.w, "unix_create_if_directory", apc.i, x.r, "", FALSE), x.r,
             IF apc.i < ND THEN Pc("dirs", apc.i + 1, 0, "", "")
             ELSE Pc("files", 1, 0, "", ""))

\* second loop of unix_create_dirs_and_empty_files
extract_if_empty_file_step ==
    /\ apc.pc = "files"
    /\ \E x \in unix_extract_if_empty_file(World, apc.i) :
        Goes(Called(x.w, "unix_extract_if_empty_file", apc.i, x.r, "",
                    x.w.h.eperm # hist.eperm),
             x.r,
             IF apc.i < ND THEN Pc("files", apc.i + 1, 0, "", "")
             ELSE Pc("realpath", 0, 0, "", ""))

required_features_symlink_reparse_points ==
    \E ino \in 1..Len(Image.inodes) : inode_is_symlink(ino)

\* ctx->target_abspath = realpath(ctx->common.target, NULL)
get_target_abspath ==
    /\ apc.pc = "realpath"
    /\ LET next == IF NS > 0 THEN Pc("begin", 1, 0, "", "")
                   ELSE Pc("dirmeta", ND, 0, "", "")
       IN
       IF "RPFIX" \in flags /\ required_features_symlink_reparse_points
       THEN \E x \in { R([World EXCEPT !.c.target_abspath = TargetAbspath,
                                       !.c.abspath = "set"], "0") }
                     \cup Faulted(World, "WIMLIB_ERR_NOMEM") :
                Goes(x.w, x.r, next)
       ELSE Goes(World, "0", next)

\* extract_stream_list: cbs.begin_stream(stream, ctx); an error ends the
\* extraction without a call of end_stream
begin_stream ==
    /\ apc.pc = "begin"
    /\ LET w0 == [World EXCEPT !.h.stream_fds = {}, !.h.delivered = <<>>,
                                !.h.nchunks = 0] IN
       \E x \in unix_begin_extract_stream(w0, apc.i) :
        Goes(Called(x.w, "unix_begin_extract_stream", apc.i, x.r, "", FALSE), x.r,
             Pc("chunk", apc.i, 0, "0", ""))

\* extract_stream_list: cbs.consume_chunk(chunk, size, ctx) with the next
\* bytes of the stream; an error becomes the status end_stream is called with
consume_chunk ==
    /\ apc.pc = "chunk"
    /\ apc.off < Stream(apc.i).size
    /\ \E n \in 1..Min(MaxChunk, Stream(apc.i).size - apc.off) :
        LET chunk == SubSeq(Stream(apc.i).data, apc.off + 1, apc.off + n)
            w0 == [World EXCEPT !.h.delivered = @ \o chunk, !.h.nchunks = @ + 1]
        IN \E x \in unix_extract_chunk(w0, chunk) :
            Goes(Called(x.w, "unix_extract_chunk", apc.i, x.r, "", FALSE), "0",
                 IF x.r # "0" THEN Pc("end", apc.i, apc.off, x.r, "")
                 ELSE Pc("chunk", apc.i, apc.off + n, "0", ""))

\* extract_stream_list: reading the stream fails
read_error ==
    /\ apc.pc = "chunk"
    /\ apc.off < Stream(apc.i).size
    /\ \E x \in Faulted(World, "WIMLIB_ERR_READ") :
        Goes(x.w, "0", Pc("end", apc.i, apc.off, x.r, ""))

\* extract_stream_list: cbs.end_stream(stream, status, ctx)
end_stream ==
    /\ \/ apc.pc = "end"
       \/ apc.pc = "chunk" /\ apc.off = Stream(apc.i).size
    /\ \E x \in unix_end_extract_stream(World, apc.i, apc.status) :
        Goes(Called(x.w, "unix_end_extract_stream", apc.i, x.r, apc.status, FALSE),
             x.r,
             IF apc.i < NS THEN Pc("begin", apc.i + 1, 0, "", "")
             ELSE Pc("dirmeta", ND, 0, "", ""))

\* unix_set_dir_metadata walking the list forwards
unix_set_dir_metadata_forward(w, d) ==
    IF ~dentry_is_directory(ND + 1 - d) THEN { R(w, "0") }
    ELSE UNION { IF x.r # "0" THEN { x } ELSE report_progress(x.w)
                 : x \in unix_set_metadata(w, NULL, Dentry(ND + 1 - d).ino, NULL) }

\* unix_set_dir_metadata, one dentry of the reversed list
unix_set_dir_metadata_step(w, d) ==
    IF ~dentry_is_directory(d) THEN { R(w, "0") }
    ELSE UNION { IF x.r # "0" THEN { x } ELSE report_progress(x.w)
                 : x \in unix_set_metadata(w, NULL, Dentry(d).ino, NULL) }

\* unix_set_dir_metadata; after the last dentry unix_extract returns 0
set_dir_metadata_step ==
    /\ apc.pc = "dirmeta"
    /\ \E x \in unix_set_dir_metadata_step(World, apc.i) :
        IF x.r = "0" /\ apc.i = 1
        THEN Goes([x.w EXCEPT !.c = unix_extract_out(@)], "0",
                  Pc("done", 0, 0, "", "0"))
        ELSE Goes(x.w, x.r, Pc("dirmeta", apc.i - 1, 0, "", ""))

NoApiCall ==
    [op |-> "none", ctype |-> 0, max_block_size |-> 0, level |-> 0,
     c_ret_null |-> FALSE, ret |-> "", used_level |-> 0, failed |-> "",
     written |-> FALSE, size |-> 0, has |-> FALSE]

\* static storage is zeroed; the caller's pointer is not yet written
CodecIdle ==
    /\ levels = [i \in 0..(ARRAY_LEN_compressor_ops - 1) |-> 0]
    /\ cslot = [written |-> FALSE, c |-> NoCompressor]
    /\ cheap = [b \in Blocks |-> "null"]
    /\ clast = NoApiCall

SerialFields ==
    /\ proc = [state |-> "running", at |-> ""]
    /\ ctx = NoCtx
    /\ heap = [b \in Blocks |-> "null"]
    /\ compressor_ret = "NULL"
    /\ new_ret = "unset"
    /\ outp = [cdata_ret |-> "unset", csize_ret |-> 0, usize_ret |-> 0]
    /\ sent = <<>>
    /\ last = NoCall

\* no chunk compressor is in use
SerialIdle ==
    /\ verify_build = FALSE
    /\ SerialFields

\* no extraction is in progress
ApplyIdle ==
    /\ img = 1
    /\ flags = {}
    /\ apc = Pc("idle", 0, 0, "", "")
    /\ uctx = Ctx0
    /\ fs = [names |-> <<>>, objs |-> <<>>, fdtab |-> <<>>]
    /\ hist = Hist0

(***************************************************************************)
(* endianness.h.  An integer of w bytes is the sequence of its bytes, the  *)
(* least significant first.  Every shift of the header is by a multiple of *)
(* 8 bits and every mask selects whole bytes, so the operators of C are    *)
(* computed on the bytes; a conversion to a narrower type drops the bytes  *)
(* above its width.                                                        *)
(***************************************************************************)
MaxConversions == 2    \* conversions applied in a row to one value

\* the byte values the arguments are made of: OR-ing two of them gives a
\* third value
EndianBytes == {15, 240}

\* sizeof(u16), sizeof(u32), sizeof(u64), and sizeof(int) for the promotion
Widths == {2, 4, 8}
SIZEOF_int == 4

RECURSIVE BitOr(_, _)
BitOr(a, b) ==
    IF a = 0 THEN b
    ELSE IF b = 0 THEN a
    ELSE (IF a % 2 = 1 \/ b % 2 = 1 THEN 1 ELSE 0) + 2 * BitOr(a \div 2, b \div 2)

RECURSIVE BitAnd(_, _)
BitAnd(a, b) ==
    IF a = 0 \/ b = 0 THEN 0
    ELSE (IF a % 2 = 1 /\ b % 2 = 1 THEN 1 ELSE 0) + 2 * BitAnd(a \div 2, b \div 2)

\* (uW)n: the value modulo 2^(8w), zero-extended when n is narrower
Convert(n, w) == [i \in 1..w |-> IF i <= Len(n) THEN n[i] ELSE 0]
\* n << 8k and n >> 8k in the type of n
Shl(n, k) == [i \in 1..Len(n) |-> IF i > k THEN n[i - k] ELSE 0]
Shr(n, k) == [i \in 1..Len(n) |-> IF i + k <= Len(n) THEN n[i + k] ELSE 0]
\* a | b and a & b
Or(a, b) == [i \in 1..Len(a) |-> BitOr(a[i], b[i])]
And(a, b) == [i \in 1..Len(a) |-> BitAnd(a[i], b[i])]
\* the constant 0xff << 8k in a type of w bytes
FF(k, w) == [i \in 1..w |-> IF i = k + 1 THEN 255 ELSE 0]

\* __builtin_bswap32, __builtin_bswap64 of GCC
builtin_bswap(n) == [i \in 1..Len(n) |-> n[Len(n) + 1 - i]]

\* (n << 8) | (n >> 8), n promoted to int, the result converted to u16
bswap16(n) ==
    LET p == Convert(Convert(n, 2), SIZEOF_int)
    IN Convert(Or(Shl(p, 1), Shr(p, 1)), 2)

\* the shifts without the masks
bswap32_no_mask(n, builtin) ==
    LET u == Convert(n, 4)
    IN Or(Or(Or(Shl(u, 3), Shl(u, 1)), Shr(u, 1)), Shr(u, 3))

bswap32(n, builtin) ==
    LET u == Convert(n, 4) IN
    IF builtin THEN builtin_bswap(u)
    ELSE Or(Or(Or(Shl(u, 3),
                  Shl(And(u, FF(1, 4)), 1)),
               Shr(And(u, FF(2, 4)), 1)),
            Shr(u, 3))

bswap64(n, builtin) ==
    LET u == Convert(n, 8) IN
    IF builtin THEN builtin_bswap(u)
    ELSE Or(Or(Or(Or(Or(Or(Or(Shl(u, 7),
                              Shl(And(u, FF(1, 8)), 5)),
                           Shl(And(u, FF(2, 8)), 3)),
                        Shl(And(u, FF(3, 8)), 1)),
                     Shr(And(u, FF(4, 8)), 1)),
                  Shr(And(u, FF(5, 8)), 3)),
               Shr(And(u, FF(6, 8)), 5)),
            Shr(u, 7))

\* bswap16, bswap32 or bswap64, as the name of the macro says
bswap(w, n, builtin) ==
    IF w = 2 THEN bswap16(n)
    ELSE IF w = 4 THEN bswap32(n, builtin)
    ELSE bswap64(n, builtin)

\* the macros of a build with WORDS_BIGENDIAN (big) and of one without
cpu_to_le(w, n, big, builtin) == IF big THEN bswap(w, n, builtin) ELSE n
le_to_cpu(w, n, big, builtin) == IF big THEN bswap(w, n, builtin) ELSE n
cpu_to_be(w, n, big, builtin) == IF big THEN n ELSE bswap(w, n, builtin)
be_to_cpu(w, n, big, builtin) == IF big THEN n ELSE bswap(w, n, builtin)

\* the arguments: every value made of the two bytes, and 0x0201,
\* 0x04030201, 0x0807060504030201
EndianInputs(w) == [1..w -> EndianBytes] \cup { [i \in 1..w |-> i] }

EndianIdle ==
    /\ words_bigendian = FALSE
    /\ gnuc_4_3 = FALSE
    /\ e_width = 2
    /\ e_vals = <<>>
    /\ e_ops = <<>>

\* the value the next conversion is applied to
e_val == e_vals[Len(e_vals)]

\* n = op(n)
Converted(op, res) ==
    /\ Len(e_ops) < MaxConversions
    /\ e_vals' = Append(e_vals, res)
    /\ e_ops' = Append(e_ops, op)
    /\ UNCHANGED <<words_bigendian, gnuc_4_3, e_width>>
    /\ UNCHANGED <<svars, avars, cvars, wvars, pvars>>

call_bswap16 ==
    /\ e_width = 2
    /\ Converted("bswap", bswap16(e_val))

call_bswap32 ==
    /\ e_width = 4
    /\ Converted("bswap", bswap32(e_val, gnuc_4_3))

call_bswap64 ==
    /\ e_width = 8
    /\ Converted("bswap", bswap64(e_val, gnuc_4_3))

call_cpu_to_le ==
    Converted("cpu_to_le", cpu_to_le(e_width, e_val, words_bigendian, gnuc_4_3))

call_le_to_cpu ==
    Converted("le_to_cpu", le_to_cpu(e_width, e_val, words_bigendian, gnuc_4_3))

call_cpu_to_be ==
    Converted("cpu_to_be", cpu_to_be(e_width, e_val, words_bigendian, gnuc_4_3))

call_be_to_cpu ==
    Converted("be_to_cpu", be_to_cpu(e_width, e_val, words_bigendian, gnuc_4_3))

NextEndian ==
    \/ call_bswap16
    \/ call_bswap32
    \/ call_bswap64
    \/ call_cpu_to_le
    \/ call_le_to_cpu
    \/ call_cpu_to_be
    \/ call_be_to_cpu

(***************************************************************************)
(* unix_apply.c: the extraction paths, character by character.  A path     *)
(* buffer is an array of path_max bytes; a byte MALLOC left as it found it *)
(* is Indeterminate.                                                       *)
(***************************************************************************)
Nul == 0
Indeterminate == 0 - 2

\* a dentry of the image: d_extraction_name, d_parent, whether it is the
\* root of the image and whether it is extracted
Dn(name, parent, root, extract) ==
    [d_extraction_name |-> name, d_parent |-> parent, root |-> root,
     extract |-> extract]

\* tree 1: "/", a, a/bc and a/bc/d, all extracted
\* tree 2: "/", x, x/y, x/y/zz and x/w, of which x/y, x/y/zz and x/w are
\*         extracted
\* tree 3: "/" alone
Trees ==
    << << Dn(<<>>, 1, TRUE, TRUE), Dn(<<97>>, 1, FALSE, TRUE),
          Dn(<<98, 99>>, 2, FALSE, TRUE), Dn(<<100>>, 3, FALSE, TRUE) >>,
       << Dn(<<>>, 1, TRUE, FALSE), Dn(<<120>>, 1, FALSE, FALSE),
          Dn(<<121>>, 2, FALSE, TRUE), Dn(<<122, 122>>, 3, FALSE, TRUE),
          Dn(<<119>>, 2, FALSE, TRUE) >>,
       << Dn(<<>>, 1, TRUE, TRUE) >> >>

\* ctx->common.target
Targets == { <<116>>, <<Slash, 116>>, <<116, Slash, 117>> }

PDentry(d) == Trees[tree][d]
dentry_is_root(d) == PDentry(d).root
will_extract_dentry(d) == PDentry(d).extract
\* the dentry_list unix_extract is given
dentry_list == { d \in 1..Len(Trees[tree]) : will_extract_dentry(d) }
target_nchars == Len(common_target)

\* unix_dentry_path_length(dentry): the do-while loop from dentry d on
RECURSIVE path_length_from(_)
path_length_from(d) ==
    LET len == Len(PDentry(d).d_extraction_name) + 1
        up == PDentry(d).d_parent
    IN IF ~dentry_is_root(up) /\ will_extract_dentry(up)
       THEN len + path_length_from(up)
       ELSE len

unix_dentry_path_length(d) == path_length_from(d)

MaxOf(S) == IF S = {} THEN 0 ELSE CHOOSE x \in S : \A y \in S : y <= x

\* unix_compute_path_max without the byte of the null terminator
unix_compute_path_max_no_nul ==
    target_nchars + MaxOf({ unix_dentry_path_length(d) : d \in dentry_list })

\* unix_compute_path_max(dentry_list, ctx)
unix_compute_path_max ==
    target_nchars + MaxOf({ unix_dentry_path_length(d) : d \in dentry_list }) + 1

\* one byte stored through p: outside the allocation the behaviour is
\* undefined, which is noted and the byte dropped
Poke(b, p, c) ==
    IF p \in 0..(Len(b.bytes) - 1)
    THEN [b EXCEPT !.bytes[p + 1] = c, !.writes = @ \cup {p}]
    ELSE [b EXCEPT !.writes = @ \cup {p}, !.outside = TRUE]

\* memcpy(p, src, n)
RECURSIVE Memcpy(_, _, _)
Memcpy(b, p, src) ==
    IF src = <<>> THEN b
    ELSE Memcpy(Poke(b, p, Head(src)), p + 1, Tail(src))

\* the do-while loop of unix_build_extraction_path, p pointing at the byte
\* after the name of d
RECURSIVE build_from(_, _, _)
build_from(b, p, d) ==
    LET name == PDentry(d).d_extraction_name
        p1 == p - Len(name)
        b1 == Poke(Memcpy(b, p1, name), p1 - 1, Slash)
        up == PDentry(d).d_parent
    IN IF ~dentry_is_root(up) /\ will_extract_dentry(up)
       THEN build_from(b1, p1 - 1, up)
       ELSE b1

\* the bytes of a buffer, as a C string read from its start
RECURSIVE CString(_, _)
CString(bytes, i) ==
    IF i > Len(bytes) THEN << Indeterminate >>
    ELSE IF bytes[i] = Nul THEN <<>>
    ELSE << bytes[i] >> \o CString(bytes, i + 1)

NoBuild == [op |-> "none", d |-> 0, buf |-> 0, writes |-> {}, outside |-> FALSE,
            path |-> <<>>, which |-> 0]

PathIdle ==
    /\ tree = 1
    /\ common_target = <<>>
    /\ pathbufs = <<>>
    /\ which_pathbuf = 0
    /\ built = NoBuild
    /\ ppc = "idle"

\* unix_extract: path_max = unix_compute_path_max(dentry_list, ctx); each
\* buffer is allocated and the target copied to its start
alloc_pathbufs ==
    /\ ppc = "start"
    /\ \/ /\ pathbufs' =
               [i \in 1..NUM_PATHBUFS |->
                   [n \in 1..unix_compute_path_max |->
                       IF n <= target_nchars THEN common_target[n] ELSE Indeterminate]]
          /\ ppc' = "ready"
       \/ /\ pathbufs' = pathbufs
          /\ ppc' = "nomem"
    /\ built' = [NoBuild EXCEPT !.op = "alloc"]
    /\ UNCHANGED <<tree, common_target, which_pathbuf>>
    /\ UNCHANGED <<svars, avars, cvars, wvars, evars>>

\* unix_build_extraction_path(dentry, ctx)
build_extraction_path ==
    /\ ppc = "ready"
    /\ \E dentry \in dentry_list :
        LET pb == which_pathbuf
            p == target_nchars + unix_dentry_path_length(dentry)
            b0 == [bytes |-> pathbufs[pb + 1], writes |-> {}, outside |-> FALSE]
            b == build_from(Poke(b0, p, Nul), p, dentry)
        IN /\ pathbufs' = [pathbufs EXCEPT ![pb + 1] = b.bytes]
           /\ which_pathbuf' = build_next_pathbuf(which_pathbuf)
           /\ built' = [op |-> "build", d |-> dentry, buf |-> pb,
                        writes |-> b.writes, outside |-> b.outside,
                        path |-> CString(b.bytes, 1), which |-> which_pathbuf]
    /\ UNCHANGED <<tree, common_target, ppc>>
    /\ UNCHANGED <<svars, avars, cvars, wvars, evars>>

\* unix_reuse_pathbuf(ctx), called after a path was built
reuse_pathbuf_call ==
    /\ ppc = "ready"
    /\ built.op = "build"
    /\ which_pathbuf' = reuse_pathbuf(which_pathbuf)
    /\ built' = [built EXCEPT !.op = "reuse"]
    /\ UNCHANGED <<tree, common_target, pathbufs, ppc>>
    /\ UNCHANGED <<svars, avars, cvars, wvars, evars>>

NextPath ==
    \/ alloc_pathbufs
    \/ build_extraction_path
    \/ reuse_pathbuf_call

(***************************************************************************)
(* write.h, wim.h: the write flags, the append lock and the overwrite of a *)
(* WIM file in place.  The flag masks and the lock functions of a build    *)
(* without flock() are in write.h; the overwrite itself follows the        *)
(* written design (write planner, steps 4 to 9, and its locking rule).     *)
(***************************************************************************)
MaxOverwrites == 2     \* overwrites of the file in one run

\* write.h, "Internal use only"
InternalWriteFlags ==
    {"NO_LOOKUP_TABLE", "CHECKPOINT_AFTER_XML", "HEADER_AT_END",
     "FILE_DESCRIPTOR", "USE_EXISTING_TOTALBYTES", "NO_METADATA", "OVERWRITE"}

\* a mask that lets an internal flag in
WRITE_MASK_PUBLIC_with_internal ==
    {"CHECK_INTEGRITY", "NO_CHECK_INTEGRITY", "PIPABLE", "NOT_PIPABLE",
     "RECOMPRESS", "FSYNC", "REBUILD", "SOFT_DELETE", "IGNORE_READONLY_FLAG",
     "SKIP_EXTERNAL_WIMS", "STREAMS_OK", "RETAIN_GUID", "PACK_STREAMS",
     "SEND_DONE_WITH_FILE_MESSAGES", "OVERWRITE"}

\* the flags or-ed into WIMLIB_WRITE_MASK_PUBLIC, by name
WIMLIB_WRITE_MASK_PUBLIC ==
    {"CHECK_INTEGRITY", "NO_CHECK_INTEGRITY", "PIPABLE", "NOT_PIPABLE",
     "RECOMPRESS", "FSYNC", "REBUILD", "SOFT_DELETE", "IGNORE_READONLY_FLAG",
     "SKIP_EXTERNAL_WIMS", "STREAMS_OK", "RETAIN_GUID", "PACK_STREAMS",
     "SEND_DONE_WITH_FILE_MESSAGES"}

\* the argument a caller may pass as write_flags
WriteFlagInputs ==
    {{}} \cup { {f} : f \in WIMLIB_WRITE_MASK_PUBLIC \cup InternalWriteFlags }
    \cup { {"CHECK_INTEGRITY", "FSYNC"}, {"FSYNC", "OVERWRITE"} }

\* write_flags & ~WIMLIB_WRITE_MASK_PUBLIC
write_flags_not_public(write_flags) == write_flags \ WIMLIB_WRITE_MASK_PUBLIC

Locked(ret, w, owner) == [ret |-> ret, wim |-> w, owner |-> owner]

\* lock_wim_for_append of a build without flock(): return 0
lock_wim_for_append_stub(w, owner) == Locked("0", w, owner)

\* unlock_wim_for_append of a build without flock(): nothing
unlock_wim_for_append_stub(w, owner) == Locked("0", w, owner)

\* lock_wim_for_append of a build with flock(): the lock is taken unless
\* this WIMStruct or another process holds it
lock_wim_for_append_flock(w, owner) ==
    IF w.locked_for_append \/ owner = "other"
    THEN Locked("WIMLIB_ERR_ALREADY_LOCKED", w, owner)
    ELSE Locked("0", [w EXCEPT !.locked_for_append = TRUE], "self")

unlock_wim_for_append_flock(w, owner) ==
    IF w.locked_for_append
    THEN Locked("0", [w EXCEPT !.locked_for_append = FALSE], "none")
    ELSE Locked("0", w, owner)

lock_wim_for_append(w, owner) ==
    IF have_flock THEN lock_wim_for_append_flock(w, owner)
    ELSE lock_wim_for_append_stub(w, owner)

unlock_wim_for_append(w, owner) ==
    IF have_flock THEN unlock_wim_for_append_flock(w, owner)
    ELSE unlock_wim_for_append_stub(w, owner)

(***************************************************************************)
(* The file: a header and the resource area, a sequence of resources.      *)
(* The header names the lookup table by its place in the area; the lookup  *)
(* table names the metadata resource of every image.                       *)
(***************************************************************************)
Res(kind, v) == [kind |-> kind, v |-> v]
Hdr(lookup, image_count) == [lookup |-> lookup, image_count |-> image_count]

\* an empty WIM, and a WIM of one image
Disks ==
    { [hdr |-> Hdr(1, 0), area |-> << Res("lookup", <<>>), Res("xml", <<0>>) >>],
      [hdr |-> Hdr(3, 1),
       area |-> << Res("stream", <<1>>), Res("metadata", <<1>>),
                   Res("lookup", <<2>>), Res("xml", <<1>>) >>] }

\* what opening the file finds: the images the header's lookup table names
Reopen(d) ==
    LET table == d.area[d.hdr.lookup] IN
    [image_count |-> d.hdr.image_count,
     lookup |-> table,
     images |-> [i \in 1..Len(table.v) |-> d.area[table.v[i]]]]

\* a resource written over the old end of the file
overwrite_resource(d, r) ==
    [d EXCEPT !.area = [@ EXCEPT ![d.hdr.lookup] = r]]

\* a resource written after the end of the file
append_resource(d, r) == [d EXCEPT !.area = Append(@, r)]

\* the last resource of a kind in the area (0: none)
LastOf(d, kind) ==
    LET S == { i \in 1..Len(d.area) : d.area[i].kind = kind } IN
    IF S = {} THEN 0 ELSE CHOOSE i \in S : \A j \in S : j <= i

\* the resource each step writes
StepResource(d, step, image) ==
    CASE step = "streams" -> Res("stream", <<image>>)
      [] step = "metadata" -> Res("metadata", <<image>>)
      [] step = "lookup" ->
            Res("lookup", Append(d.area[d.hdr.lookup].v, LastOf(d, "metadata")))
      [] step = "xml" -> Res("xml", <<image>>)
      [] step = "integrity" -> Res("integrity", <<Len(d.area)>>)

\* the order of the steps; the integrity table only when asked for
StepAfter(step, write_flags) ==
    CASE step = "streams" -> "metadata"
      [] step = "metadata" -> "lookup"
      [] step = "lookup" -> "xml"
      [] step = "xml" ->
            IF "CHECK_INTEGRITY" \in write_flags THEN "integrity" ELSE "commit"
      [] step = "integrity" -> "commit"

WriteSteps == {"streams", "metadata", "lookup", "xml", "integrity"}
Overwriting == WriteSteps \cup {"commit", "unlock"}

\* the header the commit writes
write_wim_header(d, image_count) ==
    [d EXCEPT !.hdr = Hdr(LastOf(d, "lookup"), image_count)]

NoWrite(d) ==
    [n |-> 0, write_flags |-> {}, ret |-> "none", lock_ret |-> "none",
     pre |-> Reopen(d), old_end |-> Len(d.area), committed |-> FALSE,
     crashed_at |-> "none"]

WriteIdle ==
    /\ have_flock = FALSE
    /\ wim = [locked_for_append |-> FALSE, image_count |-> 0]
    /\ disk = [hdr |-> Hdr(1, 0), area |-> << Res("lookup", <<>>), Res("xml", <<0>>) >>]
    /\ flock_owner = "none"
    /\ wpc = "idle"
    /\ wh = NoWrite(disk)

InitWrite ==
    /\ have_flock \in BOOLEAN
    /\ disk \in Disks
    /\ wim = [locked_for_append |-> FALSE, image_count |-> disk.hdr.image_count]
    /\ flock_owner \in {"none", "other"}
    /\ wpc = "idle"
    /\ wh = NoWrite(disk)
    /\ SerialIdle
    /\ ApplyIdle
    /\ CodecIdle
    /\ PathIdle
    /\ EndianIdle

\* wimlib_overwrite(wim, write_flags): the flags are checked, the file is
\* locked, and an image is added in place
wimlib_overwrite ==
    /\ wpc = "idle"
    /\ wh.n < MaxOverwrites
    /\ \E write_flags \in WriteFlagInputs :
         LET l == lock_wim_for_append(wim, flock_owner)
             h == [NoWrite(disk) EXCEPT !.n = wh.n + 1, !.write_flags = write_flags]
         IN
         IF write_flags_not_public(write_flags) # {}
         THEN /\ wh' = [h EXCEPT !.ret = "WIMLIB_ERR_INVALID_PARAM"]
              /\ UNCHANGED <<wim, flock_owner, wpc>>
         ELSE /\ wim' = [l.wim EXCEPT !.image_count =
                            IF l.ret = "0" THEN @ + 1 ELSE @]
              /\ flock_owner' = l.owner
              /\ wpc' = IF l.ret = "0" THEN "streams" ELSE "idle"
              /\ wh' = [h EXCEPT !.lock_ret = l.ret,
                                 !.ret = IF l.ret = "0" THEN "none" ELSE l.ret]
    /\ UNCHANGED <<have_flock, disk>>
    /\ UNCHANGED <<svars, avars, cvars, pvars, evars>>

\* steps 4 to 8: a resource is appended, or the write fails part way
write_resource ==
    /\ wpc \in WriteSteps
    /\ \/ /\ disk' = append_resource(disk, StepResource(disk, wpc, wim.image_count))
          /\ wpc' = StepAfter(wpc, wh.write_flags)
          /\ wh' = wh
       \/ /\ \E torn \in BOOLEAN :
                disk' = IF torn THEN append_resource(disk, Res("torn", <<>>))
                        ELSE disk
          /\ wpc' = "unlock"
          /\ wh' = [wh EXCEPT !.ret = "WIMLIB_ERR_WRITE"]
    /\ UNCHANGED <<have_flock, wim, flock_owner>>
    /\ UNCHANGED <<svars, avars, cvars, pvars, evars>>

\* step 9: the header is written at offset 0, then fsync if requested
commit_header ==
    /\ wpc = "commit"
    /\ \/ /\ disk' = write_wim_header(disk, wim.image_count)
          /\ \E fsync_fails \in BOOLEAN :
                /\ fsync_fails => "FSYNC" \in wh.write_flags
                /\ wh' = [wh EXCEPT !.committed = TRUE,
                                    !.ret = IF fsync_fails THEN "WIMLIB_ERR_WRITE"
                                            ELSE "0"]
       \/ /\ disk' = disk
          /\ wh' = [wh EXCEPT !.ret = "WIMLIB_ERR_WRITE"]
    /\ wpc' = "unlock"
    /\ UNCHANGED <<have_flock, wim, flock_owner>>
    /\ UNCHANGED <<svars, avars, cvars, pvars, evars>>

\* the exit of the overwrite, reached on completion and on every error
overwrite_exit ==
    /\ wpc = "unlock"
    /\ LET u == unlock_wim_for_append(wim, flock_owner) IN
         /\ wim' = [u.wim EXCEPT !.image_count = Reopen(disk).image_count]
         /\ flock_owner' = u.owner
    /\ wpc' = "idle"
    /\ UNCHANGED <<have_flock, disk, wh>>
    /\ UNCHANGED <<svars, avars, cvars, pvars, evars>>

\* the process dies during the overwrite; its lock dies with it
crash ==
    /\ wpc \in Overwriting
    /\ wpc' = "crashed"
    /\ flock_owner' = IF flock_owner = "self" THEN "none" ELSE flock_owner
    /\ wh' = [wh EXCEPT !.crashed_at = wpc]
    /\ UNCHANGED <<have_flock, wim, disk>>
    /\ UNCHANGED <<svars, avars, cvars, pvars, evars>>

\* another process takes or drops the advisory lock
other_process ==
    /\ wpc # "crashed"
    /\ flock_owner \in {"none", "other"}
    /\ flock_owner' = IF flock_owner = "none" THEN "other" ELSE "none"
    /\ UNCHANGED <<have_flock, wim, disk, wpc, wh>>
    /\ UNCHANGED <<svars, avars, cvars, pvars, evars>>

NextWrite ==
    \/ wimlib_overwrite
    \/ write_resource
    \/ commit_header
    \/ overwrite_exit
    \/ crash
    \/ other_process

InitPath ==
    /\ tree \in 1..Len(Trees)
    /\ common_target \in Targets
    /\ pathbufs = <<>>
    /\ which_pathbuf = 0
    /\ built = NoBuild
    /\ ppc = "start"
    /\ SerialIdle
    /\ ApplyIdle
    /\ CodecIdle
    /\ WriteIdle
    /\ EndianIdle

InitApply ==
    /\ SerialIdle
    /\ img \in 1..Len(Images)
    /\ flags \in SUBSET AllFlags
    /\ apc = Pc("start", 0, 0, "", "")
    /\ uctx = Ctx0
    /\ \E pre \in Image.pre :
        fs = [names |-> pre.names, objs |-> pre.objs, fdtab |-> <<>>]
    /\ hist = Hist0
    /\ CodecIdle
    /\ WriteIdle
    /\ PathIdle
    /\ EndianIdle

NextApply ==
    \/ unix_extract_start
    \/ create_if_directory_step
    \/ extract_if_empty_file_step
    \/ get_target_abspath
    \/ begin_stream
    \/ consume_chunk
    \/ read_error
    \/ end_stream
    \/ set_dir_metadata_step

SerialInit ==
    /\ verify_build \in BOOLEAN
    /\ SerialFields

(***************************************************************************)
(* compress.c: a caller of the compressor API.                             *)
(***************************************************************************)
\* ret = wimlib_create_compressor(ctype, max_block_size, compression_level,
\*                                c_ret_null ? NULL : &c)
call_wimlib_create_compressor ==
    /\ cheap["compressor"] # "live"
    /\ \E ctype \in CTypes, max_block_size \in {0, MaxChunkSize}, level \in Levels,
          c_ret_null \in BOOLEAN, fail \in CreateFailures :
        LET o == wimlib_create_compressor(cheap, levels, ctype, max_block_size,
                                          level, c_ret_null, fail = "compressor",
                                          callback_ret(fail))
        IN /\ cheap' = o.heap
           /\ cslot' = IF o.written THEN [written |-> TRUE, c |-> o.c] ELSE cslot
           /\ clast' = [op |-> "create", ctype |-> ctype,
                        max_block_size |-> max_block_size, level |-> level,
                        c_ret_null |-> c_ret_null, ret |-> o.ret,
                        used_level |-> o.level, failed |-> o.failed,
                        written |-> o.written, size |-> 0, has |-> FALSE]
    /\ UNCHANGED levels
    /\ UNCHANGED <<svars, avars, wvars, pvars, evars>>

\* wimlib_free_compressor(c), c the compressor created last, or NULL
call_wimlib_free_compressor ==
    /\ \E null \in BOOLEAN :
        /\ ~null => cheap["compressor"] = "live"
        /\ cheap' = wimlib_free_compressor(cheap, IF null THEN NoCompressor
                                                  ELSE cslot.c)
        /\ clast' = [NoApiCall EXCEPT !.op = "free", !.c_ret_null = null,
                                      !.ret = "0"]
    /\ UNCHANGED <<levels, cslot>>
    /\ UNCHANGED <<svars, avars, wvars, pvars, evars>>

\* ret = wimlib_set_default_compression_level(ctype, compression_level)
call_wimlib_set_default_compression_level ==
    /\ \E ctype \in CTypes, level \in DefaultLevels :
        LET o == wimlib_set_default_compression_level(levels, ctype, level) IN
        /\ levels' = o.levels
        /\ clast' = [NoApiCall EXCEPT !.op = "set_level", !.ctype = ctype,
                                      !.level = level, !.ret = o.ret]
    /\ UNCHANGED <<cslot, cheap>>
    /\ UNCHANGED <<svars, avars, wvars, pvars, evars>>

\* size = wimlib_get_compressor_needed_memory(ctype, max_block_size,
\*                                            compression_level)
call_wimlib_get_compressor_needed_memory ==
    /\ \E ctype \in CTypes, max_block_size \in {MaxChunkSize}, level \in Levels,
          has \in BOOLEAN, cb \in 0..MaxCodecMemory :
        LET o == wimlib_get_compressor_needed_memory(levels, ctype, max_block_size,
                                                     level, has, cb)
        IN /\ has \/ cb = 0
           /\ clast' = [NoApiCall EXCEPT !.op = "needed_memory", !.ctype = ctype,
                                      !.max_block_size = max_block_size,
                                      !.level = level, !.used_level = o.level,
                                      !.size = o.size, !.has = has]
    /\ UNCHANGED <<levels, cslot, cheap>>
    /\ UNCHANGED <<svars, avars, wvars, pvars, evars>>

vars == <<svars, avars, cvars, wvars, pvars, evars>>

Init ==
    /\ SerialInit
    /\ ApplyIdle
    /\ CodecIdle
    /\ WriteIdle
    /\ PathIdle
    /\ EndianIdle

InitCodec ==
    /\ SerialIdle
    /\ ApplyIdle
    /\ CodecIdle
    /\ WriteIdle
    /\ PathIdle
    /\ EndianIdle

NextCodec ==
    \/ call_wimlib_create_compressor
    \/ call_wimlib_free_compressor
    \/ call_wimlib_set_default_compression_level
    \/ call_wimlib_get_compressor_needed_memory

SpecCodec == InitCodec /\ [][NextCodec]_vars

Next ==
    \/ new_serial_chunk_compressor
    \/ serial_chunk_compressor_submit_chunk
    \/ serial_chunk_compressor_get_chunk

Spec == Init /\ [][Next]_vars

SpecApply == InitApply /\ [][NextApply]_vars

SpecWrite == InitWrite /\ [][NextWrite]_vars

SpecPath == InitPath /\ [][NextPath]_vars

InitEndian ==
    /\ words_bigendian \in BOOLEAN
    /\ gnuc_4_3 \in BOOLEAN
    /\ e_width \in Widths
    /\ \E n \in EndianInputs(e_width) : e_vals = << n >>
    /\ e_ops = <<>>
    /\ SerialIdle
    /\ ApplyIdle
    /\ CodecIdle
    /\ WriteIdle
    /\ PathIdle

SpecEndian == InitEndian /\ [][NextEndian]_vars

(***************************************************************************)
(* Properties of the serial chunk pipeline (checked under Spec).           *)
(***************************************************************************)
GetCalled == last.op = "get"
GetReturned == last.op = "get" /\ last.returned
Emitted == GetReturned /\ last.ret
SubmitReturned == last.op = "submit" /\ last.returned

\* the bytes the caller reads through *cdata_ret, *csize_ret
EmittedBytes ==
    SubSeq(IF outp.cdata_ret = "udata" THEN ctx.udata ELSE ctx.cdata,
           1, outp.csize_ret)

\* C1: the chunks successful get_chunk calls return are the accepted
\* submissions, each once and in submission order, with usize the submitted
\* size; get_chunk returns false, writing no output, exactly when no accepted
\* chunk is pending.
C1_Emission ==
    GetReturned =>
        /\ last.ret = last.had
        /\ last.ret =>
            /\ outp.usize_ret = Len(last.expect)
            /\ SubSeq(ctx.udata, 1, last.size) = last.expect
            /\ outp.cdata_ret = "udata" => EmittedBytes = last.expect
            /\ ctx.ulen = 0
C1_NoOutputOnFalse ==
    (last'.op = "get" /\ last'.returned /\ ~last'.ret) => outp' = outp
C1_FifoExactlyOnce == [](C1_Emission) /\ [][C1_NoOutputOnFalse]_vars
C1_Witness ==
    /\ Emitted /\ last.had /\ Len(last.expect) = MaxChunkSize
    /\ outp.cdata_ret = "cdata" /\ sent = <<>>

\* C2: at most one chunk is in flight: submit_chunk returns false and leaves
\* the pending bytes and length alone while an accepted chunk has not been
\* retrieved, returns true when none is pending, and is accepted right after
\* a successful get_chunk.
C2_SubmitStep ==
    (last'.op = "submit" /\ last'.returned) =>
        /\ ctx.ulen # 0 => (~last'.ret /\ ctx'.udata = ctx.udata
                            /\ ctx'.ulen = ctx.ulen)
        /\ ctx.ulen = 0 => last'.ret
        /\ (last.op = "get" /\ last.returned /\ last.ret) => last'.ret
C2_OneInFlightState ==
    /\ Len(sent) <= 1
    /\ ctx.alive => ((ctx.ulen # 0) <=> (sent # <<>>))
C2_OneInFlight == [](C2_OneInFlightState) /\ [][C2_SubmitStep]_vars
C2_Witness == SubmitReturned /\ ~last.ret /\ ctx.ulen # 0 /\ Len(last.chunk) > 0

\* C3: get_chunk emits the compressor's output, csize its return value, when
\* that value is not 0, and otherwise the submitted bytes with csize = usize;
\* a return of 0 never makes get_chunk fail or lose the chunk.
C3_Fallback ==
    /\ Emitted =>
        IF last.compress_ret # 0
        THEN /\ outp.cdata_ret = "cdata"
             /\ outp.csize_ret = last.compress_ret
        ELSE /\ outp.cdata_ret = "udata"
             /\ outp.csize_ret = outp.usize_ret
             /\ EmittedBytes = last.expect
    /\ (GetCalled /\ last.size # 0 /\ last.log # "assertion_failed"
        /\ last.codec_r = 0) => (Emitted /\ outp.usize_ret = last.size)
    /\ (Emitted /\ ~verify_build) => last.compress_ret = last.codec_r
C3_Witness ==
    /\ Emitted /\ last.codec_r = 0 /\ outp.cdata_ret = "udata"
    /\ outp.csize_ret = MaxChunkSize

\* C4: the codec is called with out_avail = in_len - 1, never more than the
\* out_chunk_size - 1 bytes of cdata; so csize <= usize for every emitted
\* chunk, csize < usize for codec output and csize = usize only for a copy.
C4_OutAvail ==
    /\ (GetCalled /\ last.size # 0 /\ last.log # "assertion_failed") =>
        /\ last.avail = last.size - 1
        /\ last.avail <= ctx.out_chunk_size - 1
        /\ last.avail <= Len(ctx.cdata)
        /\ last.codec_r <= last.avail
    /\ Emitted =>
        /\ outp.csize_ret <= outp.usize_ret
        /\ outp.cdata_ret = "cdata" => outp.csize_ret < outp.usize_ret
        /\ outp.csize_ret = outp.usize_ret => outp.cdata_ret = "udata"
C4_Witness ==
    /\ Emitted /\ outp.cdata_ret = "cdata" /\ outp.csize_ret = MaxChunkSize - 1
    /\ outp.usize_ret = ctx.out_chunk_size

\* C5: every stored chunk has 0 < size <= out_chunk_size (a shorter last
\* chunk is stored as is, an empty or oversize one never), and the codec was
\* created with max_block_size = out_chunk_size, so the assertion of
\* wimlib_compress holds at every get_chunk.
C5_ChunkSize ==
    /\ ctx.alive =>
        /\ ctx.ulen = 0 \/ (0 < ctx.ulen /\ ctx.ulen <= ctx.out_chunk_size)
        /\ ctx.compressor.max_block_size = ctx.out_chunk_size
    /\ (SubmitReturned /\ last.ret) =>
        /\ 0 < last.size /\ last.size <= ctx.out_chunk_size
        /\ ctx.ulen = last.size
        /\ SubSeq(ctx.udata, 1, ctx.ulen) = last.chunk
    /\ (last.op = "submit" /\ (last.size = 0 \/ last.size > ctx.out_chunk_size)) =>
        ~(last.returned /\ last.ret)
    /\ GetCalled => last.log # "assertion_failed"
C5_Witness ==
    /\ SubmitReturned /\ last.ret /\ last.size < ctx.out_chunk_size

\* C10 as stated: when round-trip verification finds that the compressed data
\* fails to decompress, or decompresses to other bytes, an error comes back
\* to the caller of the compression.
VerificationFailed ==
    /\ GetCalled /\ verify_build /\ last.dec.done
    /\ \/ last.dec.res # 0
       \/ last.dec.buf # SubSeq(ctx.udata, 1, last.size)
C10_ErrorPropagated == VerificationFailed => (last.returned /\ Running)

\* C10 as amended: in that case wimlib_compress logs an error and calls
\* abort(); the process ends inside wimlib_compress, nothing is returned to
\* the caller and no output is written.  Verification runs only in builds
\* with ENABLE_VERIFY_COMPRESSION and only on a non-zero compressed size.
C10_AbortState ==
    /\ VerificationFailed =>
        /\ proc = Killed("wimlib_compress")
        /\ ~last.returned
        /\ last.log \in {"error_decompress_failed", "error_not_original"}
    /\ (GetCalled /\ last.dec.done) => (verify_build /\ last.codec_r # 0)
C10_AbortStep ==
    (last'.op = "get" /\ ~last'.returned) => (outp' = outp /\ sent' = sent)
C10_AbortNotError == [](C10_AbortState) /\ [][C10_AbortStep]_vars
C10_Witness ==
    /\ VerificationFailed /\ last.dec.res = 0 /\ last.log = "error_not_original"
    /\ ~Running

(***************************************************************************)
(* Properties of wimlib_compress with verification (checked under Spec).   *)
(***************************************************************************)
\* the bytes get_chunk handed to wimlib_compress
CompressInput == SubSeq(ctx.udata, 1, last.size)

\* C11: in a build that verifies compression, a non-zero size returned by
\* wimlib_compress has been decompressed back to exactly the input bytes;
\* when the buffer or the decompressor cannot be had it returns 0, and the
\* chunk is emitted raw.
C11_VerifiedOrRaw ==
    (verify_build /\ GetReturned /\ last.ret) =>
        /\ last.compress_ret # 0 =>
             /\ last.dec.done /\ last.dec.res = 0
             /\ last.dec.buf = CompressInput
             /\ last.compress_ret = last.codec_r
        /\ last.log \in {"warn_no_buffer", "warn_no_decompressor"} =>
             /\ last.compress_ret = 0
             /\ outp.cdata_ret = "udata"
             /\ EmittedBytes = CompressInput
C11_Witness ==
    /\ verify_build /\ Emitted
    /\ last.size = MaxChunkSize
    /\ last.compress_ret # 0
    /\ last.dec.done /\ last.dec.buf = CompressInput

(***************************************************************************)
(* Properties of the compressor API (checked under SpecCodec, C14 under    *)
(* Spec).                                                                  *)
(***************************************************************************)
CreateReturned == clast.op = "create"
CodecIds ==
    {WIMLIB_COMPRESSION_TYPE_XPRESS, WIMLIB_COMPRESSION_TYPE_LZX,
     WIMLIB_COMPRESSION_TYPE_LZMS}

\* C12: wimlib_create_compressor returns WIMLIB_ERR_INVALID_PARAM when c_ret
\* is NULL or max_block_size is 0, whatever the codec id;
\* WIMLIB_ERR_INVALID_COMPRESSION_TYPE for every id other than 1, 2, 3; and
\* so returns 0 only for those three ids.
C12_CreateValidation ==
    CreateReturned =>
        /\ (clast.c_ret_null \/ clast.max_block_size = 0) =>
                clast.ret = "WIMLIB_ERR_INVALID_PARAM"
        /\ (~clast.c_ret_null /\ clast.max_block_size # 0
                /\ clast.ctype \notin CodecIds) =>
                clast.ret = "WIMLIB_ERR_INVALID_COMPRESSION_TYPE"
        /\ clast.ret = "0" =>
                /\ clast.ctype \in CodecIds
                /\ ~clast.c_ret_null /\ clast.max_block_size # 0
C12_Witness ==
    /\ CreateReturned
    /\ clast.c_ret_null /\ clast.ctype = ARRAY_LEN_compressor_ops
    /\ clast.ret = "WIMLIB_ERR_INVALID_PARAM"

\* the arguments of the last call are ones the function rejects
ArgsRejected(call) ==
    \/ /\ call.op = "create"
       /\ \/ call.c_ret_null
          \/ call.max_block_size = 0
          \/ call.ctype \notin CodecIds
    \/ /\ call.op = "set_level"
       /\ call.ctype # 0 - 1
       /\ call.ctype \notin CodecIds

C13_RejectedStep ==
    ArgsRejected(clast') =>
        /\ clast'.ret \in {"WIMLIB_ERR_INVALID_PARAM",
                           "WIMLIB_ERR_INVALID_COMPRESSION_TYPE"}
        /\ cslot' = cslot
        /\ levels' = levels
        /\ cheap' = cheap

\* C13: a call of wimlib_create_compressor or
\* wimlib_set_default_compression_level that rejects its arguments returns an
\* error and changes nothing: *c_ret, the table of default levels and the
\* heap are as before the call.
C13_NoSideEffects == [][C13_RejectedStep]_vars
C13_Witness ==
    /\ clast.op = "set_level"
    /\ clast.ret = "WIMLIB_ERR_INVALID_COMPRESSION_TYPE"
    /\ \E i \in DOMAIN levels : levels[i] # clast.level
    /\ cheap["compressor"] = "live"

\* the blocks allocated before the allocation named failed was tried
AllocatedBefore(failed) ==
    IF failed = "ctx" THEN {}
    ELSE IF failed = "compressor" THEN {"ctx"}
    ELSE IF failed \in {"private", "private_param"} THEN {"ctx", "compressor"}
    ELSE {"ctx", "compressor", "private"}
            \cup (IF failed = "cdata" THEN {"udata"} ELSE {})
            \cup (IF failed = "udata" THEN {"cdata"} ELSE {})

\* C14: when an allocation of new_serial_chunk_compressor fails (context,
\* compressor, buffers) or the codec's create callback fails, the function
\* returns WIMLIB_ERR_NOMEM (the callback's own code for the callback), every
\* block allocated so far has been freed exactly once, none is left allocated
\* and *compressor_ret (and *c_ret, when the codec failed) is not written.
C14_AllocFailureCleanup ==
    (last.op = "new" /\ last.returned /\ last.failed # "") =>
        /\ new_ret = IF last.failed = "private_param"
                     THEN "WIMLIB_ERR_INVALID_PARAM" ELSE "WIMLIB_ERR_NOMEM"
        /\ compressor_ret = "NULL"
        /\ last.failed \in {"compressor", "private", "private_param"} => ~last.written
        /\ \A b \in Blocks :
            heap[b] = IF b \in AllocatedBefore(last.failed) THEN "freed" ELSE "null"
C14_Witness ==
    /\ last.op = "new" /\ last.returned /\ last.failed = "cdata"
    /\ heap["udata"] = "freed" /\ heap["private"] = "freed"
    /\ new_ret = "WIMLIB_ERR_NOMEM"

(***************************************************************************)
(* Properties of the write flags, the append lock and the overwrite        *)
(* (checked under SpecWrite).                                              *)
(***************************************************************************)
\* the overwrite was let in: its flags passed and the lock call returned 0
OverwriteRunning == wpc \in Overwriting /\ wh.lock_ret = "0"

\* C15: an append-mode overwrite holds the advisory append lock from the
\* successful return of lock_wim_for_append to its exit (locked_for_append
\* is set and this process owns the lock on the file), and the lock is
\* released once the overwrite has returned, on completion and on error.
C15_AppendLockHeld ==
    /\ OverwriteRunning => (wim.locked_for_append /\ flock_owner = "self")
    /\ wpc = "idle" => (~wim.locked_for_append /\ flock_owner # "self")

\* the thirteen options the written design enumerates
SpecWriteOptions ==
    {"CHECK_INTEGRITY", "NO_CHECK_INTEGRITY", "PIPABLE", "NOT_PIPABLE",
     "RECOMPRESS", "FSYNC", "REBUILD", "SOFT_DELETE", "IGNORE_READONLY_FLAG",
     "SKIP_EXTERNAL_WIMS", "RETAIN_GUID", "PACK_STREAMS",
     "SEND_DONE_WITH_FILE_MESSAGES"}

FlagsChecked == wh.n > 0
FlagsAccepted == wh.n > 0 /\ wh.ret # "WIMLIB_ERR_INVALID_PARAM"

\* C16 as stated: the write flags accepted from a caller are exactly the
\* thirteen enumerated options, and none of the internal-only flags.
C16_ExactlyThirteen ==
    FlagsChecked =>
        /\ FlagsAccepted <=> wh.write_flags \subseteq SpecWriteOptions
        /\ FlagsAccepted => wh.write_flags \cap InternalWriteFlags = {}

\* C16: the write flags accepted from a caller are exactly the thirteen
\* enumerated options and streams-ok, fourteen in all, and none of the
\* internal-only flags.
C16_PublicWriteFlags ==
    FlagsChecked =>
        /\ FlagsAccepted <=>
              wh.write_flags \subseteq (SpecWriteOptions \cup {"STREAMS_OK"})
        /\ FlagsAccepted => wh.write_flags \cap InternalWriteFlags = {}

C16_Witness ==
    /\ FlagsAccepted
    /\ wh.write_flags = {"STREAMS_OK"}
    /\ wpc \in WriteSteps

\* C17: until the header commit of an overwrite has written the header,
\* whatever was written, and whether the overwrite failed, returned or
\* crashed, opening the file finds exactly what it held before the
\* overwrite; once the header is committed it names a lookup table that
\* lists every earlier image and the new one.
C17_HeaderLast ==
    /\ ~wh.committed => Reopen(disk) = wh.pre
    /\ wh.committed =>
          LET now == Reopen(disk) IN
          /\ now.image_count = wh.pre.image_count + 1
          /\ Len(now.images) = now.image_count
          /\ \A i \in 1..Len(now.images) : now.images[i].kind = "metadata"
          /\ \A i \in 1..Len(wh.pre.images) : now.images[i] = wh.pre.images[i]

C17_Witness ==
    /\ wpc = "crashed"
    /\ wh.crashed_at = "commit"
    /\ ~wh.committed
    /\ Len(disk.area) > wh.old_end

(***************************************************************************)
(* Properties of the UNIX apply path (checked under SpecApply).            *)
(***************************************************************************)
Done == apc.pc = "done"
BeginReturned == hist.cb.op = "unix_begin_extract_stream"
EndReturned == hist.cb.op = "unix_end_extract_stream"
MknodEperm == hist.cb.op = "unix_extract_if_empty_file" /\ hist.cb.eperm

\* the object extracted for inode ino: what the path of its first dentry names
Extracted(ino) == ObjAt(World, inode_first_extraction_dentry(ino))

\* C6: when mknod of a special file fails with EPERM, the call for that file
\* returns 0 with num_special_files_ignored incremented, unless strict mode
\* (STRICT_ACLS) is requested, in which case it returns an error.
C6_EpermUnlessStrict ==
    MknodEperm =>
        IF "STRICT_ACLS" \in flags THEN hist.cb.ret # "0"
        ELSE /\ hist.cb.ret = "0"
             /\ uctx.num_special_files_ignored = hist.cb.ignored + 1

\* C7 as stated: once unix_extract has returned, if any operation other than
\* a mknod failing with EPERM has failed, the return value is not 0.
C7_OnlyEpermSwallowed ==
    (Done /\ hist.nfail > uctx.num_special_files_ignored) => apc.ret # "0"

SwallowedKinds ==
    {"mknod_eperm", "chown", "chmod", "utimes", "utimes_enosys", "eexist_retry",
     "mkdir_eexist_dir"}

\* C7: when unix_extract returns 0, every operation that failed was one of:
\* mknod with EPERM; chown or chmod without STRICT_ACLS; setting timestamps
\* without STRICT_TIMESTAMPS; futimens/utimensat with ENOSYS (the older call
\* is then tried); a creation with EEXIST whose path was then unlinked and
\* the creation retried; mkdir with EEXIST on an existing directory.  Every
\* other failure makes unix_extract return non-zero.
C7_SwallowedFailures ==
    (Done /\ apc.ret = "0") =>
        /\ hist.nfail = hist.nswallowed
        /\ hist.swallowed \subseteq SwallowedKinds
        /\ "STRICT_ACLS" \in flags => hist.swallowed \cap {"chown", "chmod"} = {}
        /\ "STRICT_TIMESTAMPS" \in flags => "utimes" \notin hist.swallowed
C7_Witness ==
    /\ Done /\ apc.ret = "0"
    /\ "chown" \in hist.swallowed
    /\ "STRICT_TIMESTAMPS" \in flags
    /\ hist.nfail >= 2

\* C8: when unix_begin_extract_stream returns an error, and when
\* unix_end_extract_stream returns, every descriptor opened for the stream
\* has been closed, num_open_fds = 0 and reparse_ptr = NULL.
C8_CleanAfterStream ==
    (\/ BeginReturned /\ hist.cb.ret # "0"
     \/ EndReturned) =>
        /\ \A fd \in hist.stream_fds : fs.fdtab[fd].closes >= 1
        /\ uctx.num_open_fds = 0
        /\ uctx.reparse_ptr = NULL
C8_Witness ==
    /\ EndReturned /\ hist.cb.status = "0" /\ hist.cb.ret # "0"
    /\ Cardinality(hist.stream_fds) >= 2

\* C9: after begin_stream, the chunks and end_stream with status 0, the file
\* of every owner that is not a symbolic link holds the delivered chunks in
\* order, and (end_stream returning 0) the link of every owner that is one was
\* made from the stream->size bytes accumulated from them.
C9_StreamContents ==
    (EndReturned /\ hist.cb.status = "0") =>
        LET stream == Stream(hist.cb.arg) IN
        \A i \in 1..Len(stream.owners) :
            LET o == Extracted(stream.owners[i]) IN
            IF inode_is_symlink(stream.owners[i])
            THEN hist.cb.ret = "0" =>
                    /\ o # 0
                    /\ fs.objs[o].kind = "symlink"
                    /\ fs.objs[o].rp = hist.delivered
                    /\ Len(fs.objs[o].rp) = stream.size
            ELSE /\ o # 0
                 /\ fs.objs[o].kind = "reg"
                 /\ fs.objs[o].data = hist.delivered
C9_Witness ==
    /\ EndReturned /\ hist.cb.status = "0" /\ hist.cb.ret = "0"
    /\ hist.nchunks >= 2
    /\ \E i \in 1..Len(Stream(hist.cb.arg).owners) :
        inode_is_symlink(Stream(hist.cb.arg).owners[i])
    /\ \E i \in 1..Len(Stream(hist.cb.arg).owners) :
        ~inode_is_symlink(Stream(hist.cb.arg).owners[i])

(***************************************************************************)
(* The order of the phases of unix_extract (checked under SpecApply).      *)
(***************************************************************************)
KindIn(f, d) == IF f.names[d] = 0 THEN "none" ELSE f.objs[f.names[d]].kind

DirDentries == { d \in 1..ND : dentry_is_directory(d) }
\* dentries of empty regular files and of special files
EmptyFileDentries ==
    { d \in 1..ND : /\ ~dentry_is_directory(d)
                    /\ ~inode_is_symlink(Dentry(d).ino)
                    /\ inode_unnamed_lte_resolved(Dentry(d).ino) = 0 }
\* a special file mknod was not permitted to make
SkippedSpecial(d) ==
    /\ "UNIX_DATA" \in flags
    /\ inode_get_unix_data(Dentry(d).ino) /\ ~S_ISREG(Dentry(d).ino)
    /\ uctx.num_special_files_ignored > 0

AfterDirs == {"files", "realpath", "begin", "chunk", "end", "dirmeta"}
AfterFiles == {"realpath", "begin", "chunk", "end", "dirmeta"}
PhaseCalls == {"unix_create_if_directory", "unix_extract_if_empty_file",
               "unix_begin_extract_stream", "unix_end_extract_stream"}

\* where unix_extract stands, what exists
C19_Reached ==
    /\ apc.pc = "dirs" =>
          /\ \A d \in DirDentries : d < apc.i => KindIn(fs, d) = "dir"
          /\ hist.nchunks = 0 /\ fs.fdtab = <<>>
    /\ apc.pc \in AfterDirs => \A d \in DirDentries : KindIn(fs, d) = "dir"
    /\ apc.pc = "files" => hist.nchunks = 0 /\ hist.delivered = <<>>
    /\ apc.pc \in AfterFiles =>
          \A d \in EmptyFileDentries :
              KindIn(fs, d) \in {"reg", "special"} \/ SkippedSpecial(d)
    /\ (hist.cb.op \in PhaseCalls /\ hist.cb.ret \notin {"0", "ASSERT"}) =>
          (apc.pc = "done" /\ apc.ret = hist.cb.ret)

\* what a step of each phase changes
C19_PhaseStep ==
    /\ apc.pc \in {"start", "dirs"} =>
          /\ \A d \in 1..ND :
                fs'.names[d] # fs.names[d] =>
                    (d \in DirDentries /\ KindIn(fs', d) = "dir")
          /\ \A o \in 1..Len(fs.objs) : fs'.objs[o] = fs.objs[o]
          /\ fs'.fdtab = fs.fdtab
    /\ apc.pc = "files" =>
          /\ \A d \in 1..ND :
                fs'.names[d] # fs.names[d] =>
                    (d \in EmptyFileDentries
                     /\ KindIn(fs', d) \in {"none", "reg", "special"})
          /\ \A o \in 1..Len(fs'.objs) :
                \/ fs'.objs[o].data = <<>>
                \/ o <= Len(fs.objs) /\ fs'.objs[o].data = fs.objs[o].data
    /\ apc.pc = "end" => (apc'.pc = "done" /\ apc'.ret = apc.status)
    /\ apc.pc = "done" => apc'.pc = "done"
    /\ C19_Reached'

\* C19: unix_extract makes every directory of the dentry list, in list
\* order, before any empty, special or non-empty file or symlink is made,
\* and every empty and special file before any stream data is extracted;
\* a phase step that returns an error ends the extraction with that error.
C19_PhaseOrder == [][C19_PhaseStep]_vars

C19_Witness ==
    /\ img = 1 /\ flags = {"UNIX_DATA"}
    /\ apc.pc = "chunk" /\ hist.nchunks > 0
    /\ KindIn(fs, 1) = "dir"
    /\ KindIn(fs, 2) = "reg" /\ KindIn(fs, 3) = "reg"
    /\ KindIn(fs, 4) = "special"

DirMeta(f, d) ==
    IF f.names[d] = 0 THEN {}
    ELSE { m \in f.objs[f.names[d]].meta : m[2] = Dentry(d).ino }
\* the metadata of some directory has been set
DirMetaSet(f) == \E d \in DirDentries : DirMeta(f, d) # {}

\* the parts of an object that creating or writing changes
Content(o) == [kind |-> o.kind, data |-> o.data, target |-> o.target, rp |-> o.rp]

C20_Reached ==
    /\ DirMetaSet(fs) => apc.pc \in {"dirmeta", "done"}
    /\ apc.pc = "dirmeta" =>
          /\ \A d \in DirDentries : DirMeta(fs, d) # {} => d > apc.i
          /\ uctx.num_open_fds = 0
          /\ NS > 0 => /\ hist.cb.op = "unix_end_extract_stream"
                       /\ hist.cb.arg = NS
                       /\ hist.cb.ret = "0"

C20_DirMetaStep ==
    /\ (apc.pc = "dirmeta" \/ DirMetaSet(fs)) =>
          /\ fs'.names = fs.names
          /\ Len(fs'.objs) = Len(fs.objs)
          /\ \A o \in 1..Len(fs.objs) : Content(fs'.objs[o]) = Content(fs.objs[o])
          /\ fs'.fdtab = fs.fdtab
          /\ \A o \in 1..Len(fs.objs) :
                fs'.objs[o].meta # fs.objs[o].meta =>
                    \E d \in DirDentries : fs.names[d] = o
    /\ C20_Reached'

\* C20: the metadata of directories is set only after the extraction of
\* every stream has returned successfully, in reverse order of the dentry
\* list, and from the first directory's metadata on nothing is created or
\* written in the target: no name, object, content or descriptor changes.
C20_DirMetadataLast == [][C20_DirMetaStep]_vars

C20_Witness ==
    /\ img = 3
    /\ apc.pc = "dirmeta" /\ apc.i = 1
    /\ DirMeta(fs, 2) # {}
    /\ DirMeta(fs, 1) = {}
    /\ fs.objs[fs.names[3]].data = <<1>>


(***************************************************************************)
(* Inodes with several extraction aliases.                                 *)
(***************************************************************************)
\* the inodes of the image that have an extraction alias
ExtractedInodes == { Dentry(d).ino : d \in 1..ND }

IsFirstAlias(d) == d = inode_first_extraction_dentry(Dentry(d).ino)

\* C22: an inode is materialised once, at its first extraction dentry, and
\* every other extraction alias is made by a successful link(first_path,
\* alias_path) and by nothing else: no mkdir, mknod, open or symlink is made
\* at a later alias, every link is from the inode's first path to another
\* alias of the same inode, and when unix_extract has returned 0 every alias
\* of every inode names the one file at the inode's first path (special
\* files that mknod was not permitted to make aside).
C22_OncePlusLinks ==
    /\ \A n \in 1..Len(hist.log) :
         LET e == hist.log[n] IN
         /\ e.op \in {"mkdir", "mknod", "open", "symlink"} => IsFirstAlias(e.a)
         /\ e.op = "link" =>
               /\ IsFirstAlias(e.a) /\ ~IsFirstAlias(e.b)
               /\ Dentry(e.a).ino = Dentry(e.b).ino
    /\ (apc.pc = "done" /\ apc.ret = "0") =>
         \A ino \in ExtractedInodes :
             LET first == inode_first_extraction_dentry(ino) IN
             ~SkippedSpecial(first) =>
                /\ fs.names[first] # 0
                /\ \A d \in 1..ND :
                      Dentry(d).ino = ino => fs.names[d] = fs.names[first]

\* the successful link() calls of the last handler
LinksMade == { n \in 1..Len(hist.log) :
                 hist.log[n].op = "link" /\ hist.log[n].r = "0" }

\* C27: unix_reuse_pathbuf undoes the step unix_build_extraction_path made
\* on which_pathbuf, from every index and through the unsigned wrap at 0;
\* which_pathbuf stays within [0, NUM_PATHBUFS); and the first argument of
\* every link() call is the inode's first path, never the alias just built.
C27_ReusePathbuf ==
    /\ \A v \in 0..(NUM_PATHBUFS - 1) :
         /\ reuse_pathbuf(build_next_pathbuf(v)) = v
         /\ reuse_pathbuf(v) \in 0..(NUM_PATHBUFS - 1)
    /\ uctx.which_pathbuf \in 0..(NUM_PATHBUFS - 1)
    /\ \A n \in 1..Len(hist.log) :
         LET e == hist.log[n] IN
         e.op = "link" =>
            /\ e.a # e.b
            /\ e.a = inode_first_extraction_dentry(Dentry(e.b).ino)

\* the file of image 4 with three names has got its second and third name,
\* the first path lying in the buffer whose reuse wraps
C27_Witness ==
    /\ img = 4
    /\ hist.cb.op = "unix_begin_extract_stream"
    /\ Cardinality(LinksMade) >= 2
    /\ fs.names[3] = fs.names[2] /\ fs.names[4] = fs.names[2]

(***************************************************************************)
(* Descriptors of the stream being extracted.                              *)
(***************************************************************************)
\* a stream is between its begin and its end
StreamOpen == apc.pc \in {"chunk", "end"}

\* the descriptors unix_begin_extract_stream_instance opened for the stream
\* last begun have been given to close() n times
ClosedTimes(fd) == fs.fdtab[fd].closes

\* C24: every descriptor opened by unix_begin_extract_stream_instance is
\* closed exactly once: never twice, and once the stream is over (its begin
\* failed or its end was called) none is left open.
C24_ClosedExactlyOnce ==
    \A fd \in hist.stream_fds :
        /\ ClosedTimes(fd) <= 1
        /\ (~StreamOpen /\ apc.pc # "aborted") => ClosedTimes(fd) = 1

\* the owners of stream k that are not symlinks, in owner order
NonSymlinkOwners(k) ==
    SelectSeq(Stream(k).owners, LAMBDA ino : ~inode_is_symlink(ino))

MetaOps == {"owner", "mode", "times"}

\* unix_end_extract_stream has just returned: the log is that of its calls
EndJustReturned ==
    /\ hist.cb.op = "unix_end_extract_stream"
    /\ \/ apc.pc = "begin"
       \/ apc.pc = "dirmeta" /\ apc.i = ND
       \/ apc.pc = "done" /\ hist.cb.ret # "0"

\* C23: between a successful unix_begin_extract_stream and the matching
\* unix_end_extract_stream, num_open_fds is the number of owners of the
\* stream that are not symlinks and at most MAX_OPEN_STREAMS, the assertion
\* has not failed, and open_fds[k] is an open descriptor of its own on the
\* file at the first path of the k-th such owner; unix_end_extract_stream
\* sets the metadata of each such owner through that file.
C23_OpenFds ==
    /\ ~hist.asserted
    /\ StreamOpen =>
        LET own == NonSymlinkOwners(apc.i) IN
        /\ uctx.num_open_fds = Len(own)
        /\ uctx.num_open_fds <= MAX_OPEN_STREAMS
        /\ \A j \in 1..Len(own) :
             LET fd == uctx.open_fds[j] IN
             /\ fd \in hist.stream_fds
             /\ ClosedTimes(fd) = 0
             /\ fs.fdtab[fd].obj = fs.names[inode_first_extraction_dentry(own[j])]
             /\ \A i \in 1..Len(own) : i # j => uctx.open_fds[i] # fd
    /\ (EndJustReturned /\ hist.cb.status = "0") =>
        LET own == NonSymlinkOwners(hist.cb.arg) IN
        /\ \A n \in 1..Len(hist.log) :
             (hist.log[n].op \in MetaOps /\ ~inode_is_symlink(hist.log[n].b)) =>
                \E j \in 1..Len(own) :
                    /\ own[j] = hist.log[n].b
                    /\ hist.log[n].a = fs.fdtab[uctx.open_fds[j]].obj
                    /\ hist.log[n].a =
                          fs.names[inode_first_extraction_dentry(own[j])]
        /\ hist.cb.ret = "0" =>
             \A j \in 1..Len(own) :
                 \E n \in 1..Len(hist.log) :
                     hist.log[n].op \in MetaOps /\ hist.log[n].b = own[j]

\* the stream of image 4 with MAX_OPEN_STREAMS or more file owners is open
C23_Witness ==
    /\ img = 4 /\ apc.pc = "chunk" /\ apc.i = 1
    /\ uctx.num_open_fds = Len(Stream(1).owners)
    /\ uctx.num_open_fds >= 3

(***************************************************************************)
(* When metadata is set.                                                   *)
(***************************************************************************)
\* unix_extract_if_empty_file has just returned: the log is that of its calls
FileJustReturned ==
    /\ hist.cb.op = "unix_extract_if_empty_file"
    /\ apc.pc \in {"files", "realpath", "done"}

IsMeta(n) == hist.log[n].op \in MetaOps

\* entry n of the log made the path of inode ino
Creates(n, ino) ==
    /\ hist.log[n].op \in {"mknod", "open", "symlink"}
    /\ hist.log[n].r = "0"
    /\ hist.log[n].a = inode_first_extraction_dentry(ino)

\* C21: between the begin and the end of a stream no metadata is set; in
\* unix_end_extract_stream the metadata of a file owner is set through its
\* descriptor when all bytes of the stream have been written to it and
\* before the descriptor is closed, and not at all when the stream failed;
\* the metadata of a symlink is set only after the symlink() that made it;
\* in unix_extract_if_empty_file metadata follows the creation at once and
\* comes before every link().
C21_MetadataOrder ==
    /\ StreamOpen => \A n \in 1..Len(hist.log) : ~IsMeta(n)
    /\ EndJustReturned =>
        LET k == hist.cb.arg
            own == NonSymlinkOwners(k)
        IN
        /\ hist.cb.status # "0" =>
              \A n \in 1..Len(hist.log) : hist.log[n].op = "close"
        /\ hist.cb.status = "0" =>
              \A n \in 1..Len(hist.log) :
                 (IsMeta(n) /\ ~inode_is_symlink(hist.log[n].b)) =>
                    \E j \in 1..Len(own) :
                       LET fd == uctx.open_fds[j] IN
                       /\ own[j] = hist.log[n].b
                       /\ hist.log[n].a = fs.fdtab[fd].obj
                       /\ hist.delivered = Stream(k).data
                       /\ fs.fdtab[fd].off = Stream(k).size
                       /\ \A m \in 1..Len(hist.log) :
                             (hist.log[m].op = "close" /\ hist.log[m].a = fd)
                                => n < m
    /\ \A n \in 1..Len(hist.log) :
         (IsMeta(n) /\ inode_is_symlink(hist.log[n].b)) =>
            \E m \in 1..(n - 1) : Creates(m, hist.log[n].b)
    /\ FileJustReturned =>
         \A n \in 1..Len(hist.log) :
            IsMeta(n) =>
               /\ n > 1
               /\ Creates(n - 1, hist.log[n].b) \/ IsMeta(n - 1)
               /\ \A m \in 1..Len(hist.log) : hist.log[m].op = "link" => n < m

\* with UNIX data, owner, mode and times of a file of image 1 have been set
\* through its descriptor, which was then closed, and owner and times of the
\* symlink after it was made
C21_Witness ==
    /\ img = 1 /\ "UNIX_DATA" \in flags
    /\ EndJustReturned /\ hist.cb.ret = "0" /\ hist.cb.arg = 1
    /\ \E n \in 1..Len(hist.log) : hist.log[n].op = "mode" /\ hist.log[n].b = 4
    /\ \E n \in 1..Len(hist.log) : hist.log[n].op = "owner" /\ hist.log[n].b = 5

(***************************************************************************)
(* The reparse data buffer.                                                *)
(***************************************************************************)
HasSymlinkOwner(k) ==
    \E i \in 1..Len(Stream(k).owners) : inode_is_symlink(Stream(k).owners[i])

\* C25: reparse_ptr is set only while a stream with a symlink owner is
\* between its begin and its end, and then points into reparse_data or just
\* past its end; no chunk is copied past the buffer; the begin of a
\* symlink-owned stream larger than REPARSE_DATA_MAX_SIZE fails (with
\* WIMLIB_ERR_INVALID_REPARSE_DATA when the symlink is the first owner) and
\* leaves reparse_ptr NULL with no chunk consumed.
C25_ReparsePtr ==
    /\ uctx.reparse_ptr # NULL =>
          /\ StreamOpen
          /\ HasSymlinkOwner(apc.i)
          /\ uctx.reparse_ptr >= 0
          /\ uctx.reparse_ptr <= REPARSE_DATA_MAX_SIZE
          /\ uctx.reparse_ptr = Len(hist.delivered) \/ apc.pc = "end"
    /\ ~hist.overrun
    /\ (/\ hist.cb.op = "unix_begin_extract_stream"
        /\ HasSymlinkOwner(hist.cb.arg)
        /\ Stream(hist.cb.arg).size > REPARSE_DATA_MAX_SIZE)
       => /\ hist.cb.ret # "0"
          /\ inode_is_symlink(Stream(hist.cb.arg).owners[1])
                => hist.cb.ret = "WIMLIB_ERR_INVALID_REPARSE_DATA"
          /\ uctx.reparse_ptr = NULL
          /\ hist.nchunks = 0

\* a link target delivered in two chunks has been buffered whole and the
\* oversized stream of image 2 has been refused
C25_Witness ==
    \/ /\ apc.pc = "chunk"
       /\ hist.nchunks >= 2
       /\ uctx.reparse_ptr = Stream(apc.i).size
       /\ uctx.reparse_ptr = REPARSE_DATA_MAX_SIZE - 1
    \/ /\ hist.cb.op = "unix_begin_extract_stream"
       /\ hist.cb.ret = "WIMLIB_ERR_INVALID_REPARSE_DATA"

(***************************************************************************)
(* unix_create_if_directory.                                               *)
(***************************************************************************)
\* the call with this name and this result is in the log of the last handler
Did(op, r) == \E n \in 1..Len(hist.log) : hist.log[n].op = op /\ hist.log[n].r = r
DidNext(op, r) ==
    \E n \in 1..Len(hist'.log) : hist'.log[n].op = op /\ hist'.log[n].r = r

\* what report_file_created returns
Reported == {"0", "WIMLIB_ERR_ABORTED_BY_PROGRESS"}

C28_Step ==
    apc.pc = "dirs" =>
        LET d == apc.i
            r == hist'.cb.ret
            kind == KindIn(fs, d)
        IN /\ hist'.cb.op = "unix_create_if_directory" /\ hist'.cb.arg = d
           /\ ~dentry_is_directory(d) => r = "0" /\ fs' = fs /\ hist'.log = <<>>
           /\ dentry_is_directory(d) =>
                /\ kind = "none" =>
                     \/ r \in Reported /\ DidNext("mkdir", "0")
                        /\ KindIn(fs', d) = "dir"
                     \/ r = "WIMLIB_ERR_MKDIR" /\ DidNext("mkdir", "EIO")
                        /\ fs' = fs
                /\ kind = "dir" =>
                     /\ fs' = fs
                     /\ r \in Reported \/ DidNext("lstat", "EIO")
                /\ kind \notin {"none", "dir"} =>
                     r = "WIMLIB_ERR_MKDIR" /\ fs' = fs
                /\ ~DidNext("unlink", "0")

\* C28: unix_create_if_directory goes on to report_file_created when mkdir
\* succeeds or when the path is already a directory (mkdir fails with EEXIST
\* and lstat shows a directory); when the path exists as anything else it
\* returns WIMLIB_ERR_MKDIR and the file system is as it was; for a dentry
\* that is not a directory it makes no call and returns 0.
C28_CreateIfDirectory == [][C28_Step]_vars

\* image 2 over a target where d is a regular file: WIMLIB_ERR_MKDIR, d kept
C28_Witness ==
    /\ hist.cb.op = "unix_create_if_directory"
    /\ hist.cb.ret = "WIMLIB_ERR_MKDIR"
    /\ Did("lstat", "reg")
    /\ KindIn(fs, hist.cb.arg) = "reg"

(***************************************************************************)
(* Creation over an existing path.                                         *)
(***************************************************************************)
CreationOps == {"mknod", "symlink", "link", "open"}

\* the path a creation call makes
Made(e) == IF e.op = "link" THEN e.b ELSE e.a

\* the error a failed creation is returned as
ErrOf(op) ==
    CASE op = "mknod" -> "WIMLIB_ERR_MKNOD"
      [] op = "open" -> "WIMLIB_ERR_OPEN"
      [] OTHER -> "WIMLIB_ERR_LINK"

\* entry n of the log is a creation that fails for good
FailsForGood(n) ==
    LET e == hist.log[n] IN
    /\ e.op \in CreationOps
    /\ \/ e.r \notin {"0", "EEXIST", "EPERM"}
       \/ e.r = "EPERM" /\ e.op # "mknod"
       \/ e.r = "EEXIST" /\ hist.log[n + 1].r # "0"

\* C29: a creation (mknod, symlink, link, open) that fails with EEXIST is
\* followed by unlink of the path it makes, and after a successful unlink
\* by the same creation again, which does not find the path any more; the
\* handler returns WIMLIB_ERR_MKNOD, _LINK, _LINK or _OPEN exactly when the
\* creation fails with another errno (EPERM of mknod aside, which is
\* ignored) or the unlink fails; no creation is tried more than twice.
C29_UnlinkAndRetry ==
    /\ \A n \in 1..Len(hist.log) :
        LET e == hist.log[n] IN
        e.op \in CreationOps =>
          /\ e.r = "EEXIST" =>
                /\ n < Len(hist.log)
                /\ hist.log[n + 1].op = "unlink"
                /\ hist.log[n + 1].a = Made(e)
                /\ hist.log[n + 1].r = "0" =>
                      /\ n + 2 <= Len(hist.log)
                      /\ hist.log[n + 2].op = e.op
                      /\ Made(hist.log[n + 2]) = Made(e)
                      /\ hist.log[n + 2].r # "EEXIST"
          /\ e.r # "EEXIST" =>
                (n < Len(hist.log) => hist.log[n + 1].op # "unlink")
          /\ FailsForGood(n) =>
                /\ hist.cb.ret = ErrOf(e.op)
                /\ \A k \in (n + 1)..Len(hist.log) :
                      hist.log[k].op \in {"unlink", "close"}
          /\ Cardinality({ k \in 1..Len(hist.log) :
                             /\ hist.log[k].op = e.op
                             /\ Made(hist.log[k]) = Made(e) }) <= 2
    /\ hist.cb.ret \in {"WIMLIB_ERR_MKNOD", "WIMLIB_ERR_LINK", "WIMLIB_ERR_OPEN"}
         => \E n \in 1..Len(hist.log) :
                FailsForGood(n) /\ ErrOf(hist.log[n].op) = hist.cb.ret

\* each kind of creation has found its path taken, removed it and succeeded
\* at the second attempt
Retried(op) ==
    \E n \in 1..Len(hist.log) :
        /\ hist.log[n].op = op /\ hist.log[n].r = "EEXIST"
        /\ hist.log[n + 1].op = "unlink" /\ hist.log[n + 1].r = "0"
        /\ hist.log[n + 2].op = op /\ hist.log[n + 2].r = "0"

C29_Witness == Retried("link") /\ hist.cb.ret = "0"

(***************************************************************************)
(* Symbolic links and the reparse point fixup.                             *)
(***************************************************************************)
\* the link target of the symlinks owning stream k, as readlink gives it
LinkTarget(k) ==
    SubSeq(Stream(k).data, 1, Min(Stream(k).size, REPARSE_DATA_MAX_SIZE - 1))

\* the three conditions of the fixup
Fixed(k, ino) ==
    /\ "RPFIX" \in flags
    /\ ~Inode(ino).not_rpfixed
    /\ Len(LinkTarget(k)) > 0 /\ LinkTarget(k)[1] = Slash

\* the target the symlink of inode ino, an owner of stream k, is to have
FixedTarget(k, ino) ==
    IF Fixed(k, ino) THEN TargetAbspath \o LinkTarget(k) ELSE LinkTarget(k)

Fits(k, ino) == Len(FixedTarget(k, ino)) + 1 <= REPARSE_DATA_MAX_SIZE

\* C30: in unix_end_extract_stream called with status 0, every symlink()
\* call is given the link target with the absolute target directory put in
\* front exactly when RPFIX is set, the inode is not marked i_not_rpfixed
\* and the target begins with '/', and the unchanged target otherwise; the
\* target and its terminator fit in REPARSE_DATA_MAX_SIZE bytes; for a
\* symlink whose fixed target does not fit no symlink() call is made, and
\* WIMLIB_ERR_REPARSE_POINT_FIXUP_FAILED is returned only for such a one.
C30_SymlinkFixup ==
    (EndJustReturned /\ hist.cb.status = "0") =>
        LET k == hist.cb.arg IN
        /\ \A n \in 1..Len(hist.log) :
             LET e == hist.log[n]
                 ino == Dentry(e.a).ino
             IN e.op = "symlink" =>
                  /\ inode_is_symlink(ino)
                  /\ e.a = inode_first_extraction_dentry(ino)
                  /\ e.b = Len(FixedTarget(k, ino))
                  /\ e.b + 1 <= REPARSE_DATA_MAX_SIZE
                  /\ e.r = "0" =>
                        /\ KindIn(fs, e.a) = "symlink"
                        /\ fs.objs[fs.names[e.a]].target = FixedTarget(k, ino)
        /\ \A i \in 1..Len(Stream(k).owners) :
             LET ino == Stream(k).owners[i] IN
             (inode_is_symlink(ino) /\ ~Fits(k, ino)) =>
                 /\ hist.cb.ret # "0"
                 /\ \A n \in 1..Len(hist.log) :
                       ~(hist.log[n].op = "symlink"
                         /\ Dentry(hist.log[n].a).ino = ino)
        /\ hist.cb.ret = "WIMLIB_ERR_REPARSE_POINT_FIXUP_FAILED" =>
             \E i \in 1..Len(Stream(k).owners) :
                 /\ inode_is_symlink(Stream(k).owners[i])
                 /\ Fixed(k, Stream(k).owners[i])
                 /\ ~Fits(k, Stream(k).owners[i])

\* a symlink made by the last unix_end_extract_stream
MadeSymlink(d) ==
    /\ EndJustReturned /\ hist.cb.ret = "0"
    /\ \E n \in 1..Len(hist.log) :
         hist.log[n].op = "symlink" /\ hist.log[n].a = d /\ hist.log[n].r = "0"

\* the absolute link of image 1 has been made with the target directory in
\* front of its target
C30_Witness ==
    /\ img = 1 /\ "RPFIX" \in flags
    /\ MadeSymlink(7)
    /\ fs.objs[fs.names[7]].target = TargetAbspath \o <<Slash, 1>>

(***************************************************************************)
(* Properties of the extraction paths (checked under SpecPath).            *)
(***************************************************************************)
\* '/' and the extraction name of each dentry from the topmost extracted
\* non-root ancestor of d down to d
RECURSIVE Below(_)
Below(d) ==
    LET up == PDentry(d).d_parent IN
    (IF ~dentry_is_root(up) /\ will_extract_dentry(up) THEN Below(up) ELSE <<>>)
    \o << Slash >> \o PDentry(d).d_extraction_name

PathBuilt == built.op \in {"build", "reuse"}

\* C26: the path unix_build_extraction_path returns is the target followed
\* by '/' and the extraction name of each dentry of the chain; the bytes it
\* stores are all at indices from target_nchars to path_max - 1, so none
\* is outside the buffer and the target at the start of both buffers stays
\* as it was filled in.
C26_ExtractionPath ==
    /\ ppc = "ready" =>
         \A i \in 1..NUM_PATHBUFS :
             /\ Len(pathbufs[i]) = unix_compute_path_max
             /\ SubSeq(pathbufs[i], 1, target_nchars) = common_target
    /\ PathBuilt =>
         /\ built.path = common_target \o Below(built.d)
         /\ built.writes \subseteq target_nchars..(unix_compute_path_max - 1)
         /\ ~built.outside

\* the longest path of tree 2 has been built: its terminator is the last
\* byte of the buffer, and the other buffer holds another path
C26_Witness ==
    /\ tree = 2 /\ built.op = "build" /\ built.d = 4
    /\ built.path = common_target \o << Slash, 121, Slash, 122, 122 >>
    /\ (unix_compute_path_max - 1) \in built.writes
    /\ target_nchars \in built.writes
    /\ CString(pathbufs[build_next_pathbuf(built.buf) + 1], 1)
         = common_target \o << Slash, 119 >>

(***************************************************************************)
(* The compression level in effect (checked under SpecCodec).              *)
(***************************************************************************)
\* the level the codec is to be given for a call with the arguments of the
\* last call: the caller's, else the default of the codec id, else 50
LevelInEffect ==
    IF clast.level # 0 THEN clast.level
    ELSE IF levels[clast.ctype] # 0 THEN levels[clast.ctype]
    ELSE DEFAULT_COMPRESSION_LEVEL

\* the codec's create_compressor has been called
CodecCreateCalled ==
    /\ clast.op = "create"
    /\ clast.ret = "0" \/ clast.failed = "private"

\* the codec's get_needed_memory has been called
CodecNeededMemoryCalled ==
    /\ clast.op = "needed_memory"
    /\ compressor_ctype_valid(clast.ctype) /\ clast.has

\* C31: the level given to the codec, by wimlib_create_compressor and by
\* wimlib_get_compressor_needed_memory alike, is the caller's level when it
\* is not 0, otherwise the default set for the codec id when that is not 0,
\* otherwise 50; for the same arguments and the same defaults the two
\* resolve to the same level; and the estimate is 0 exactly when the codec
\* id is invalid.
C31_EffectiveLevel ==
    /\ CodecCreateCalled => clast.used_level = LevelInEffect
    /\ CodecNeededMemoryCalled => clast.used_level = LevelInEffect
    /\ \A ctype \in CTypes, level \in Levels :
         compressor_ctype_valid(ctype) =>
            needed_memory_level(levels, ctype, level)
               = effective_level(levels, ctype, level)
    /\ clast.op = "needed_memory" =>
         /\ clast.size = 0 <=> ~compressor_ctype_valid(clast.ctype)
         /\ compressor_ctype_valid(clast.ctype) =>
               clast.size >= SIZEOF_wimlib_compressor

\* an estimate asked for with level 0 while the default of LZX is 10 and
\* the default of XPRESS is unset: the codec is asked about level 10
C31_Witness ==
    /\ CodecNeededMemoryCalled
    /\ clast.ctype = WIMLIB_COMPRESSION_TYPE_LZX /\ clast.level = 0
    /\ levels[WIMLIB_COMPRESSION_TYPE_LZX] = 10
    /\ levels[WIMLIB_COMPRESSION_TYPE_XPRESS] = 0
    /\ clast.used_level = 10
    /\ clast.size > SIZEOF_wimlib_compressor

(***************************************************************************)
(* The byte swaps and the conversions (checked under SpecEndian).          *)
(***************************************************************************)
\* the bytes of n in the opposite order
Reversed(n) == [i \in 1..Len(n) |-> n[Len(n) + 1 - i]]

\* n is a value of the type converted
InType(n) == Len(n) = e_width /\ \A i \in 1..Len(n) : n[i] \in 0..255

\* the i-th and the next conversion applied were a then b
Then(i, a, b) == i + 1 <= Len(e_ops) /\ e_ops[i] = a /\ e_ops[i + 1] = b

\* C32: bswap16, bswap32 and bswap64 give the bytes of their argument in
\* the opposite order, a value of the same width, and applied twice give the
\* argument back; cpu_to_le followed by le_to_cpu, and cpu_to_be followed by
\* be_to_cpu, give the argument back in a big-endian and in a little-endian
\* build; cpu_to_le changes nothing in a little-endian build and reverses
\* the bytes in a big-endian one.
C32_ByteSwap ==
    \A i \in 1..Len(e_ops) :
        /\ InType(e_vals[i + 1])
        /\ e_ops[i] = "bswap" => e_vals[i + 1] = Reversed(e_vals[i])
        /\ Then(i, "bswap", "bswap") => e_vals[i + 2] = e_vals[i]
        /\ Then(i, "cpu_to_le", "le_to_cpu") => e_vals[i + 2] = e_vals[i]
        /\ Then(i, "cpu_to_be", "be_to_cpu") => e_vals[i + 2] = e_vals[i]
        /\ e_ops[i] = "cpu_to_le" =>
              e_vals[i + 1] = IF words_bigendian THEN Reversed(e_vals[i])
                              ELSE e_vals[i]

\* 0x0807060504030201 made little-endian and back in a big-endian build
\* whose bswap64 is the one written with shifts and masks
C32_Witness ==
    /\ words_bigendian /\ ~gnuc_4_3 /\ e_width = 8
    /\ e_ops = <<"cpu_to_le", "le_to_cpu">>
    /\ e_vals = << <<1, 2, 3, 4, 5, 6, 7, 8>>, <<8, 7, 6, 5, 4, 3, 2, 1>>,
                   <<1, 2, 3, 4, 5, 6, 7, 8>> >>

====
